---- MODULE Spec2Model ----
(***************************************************************************)
(* A model of the statistics core of @faerscope/opencore: the 2x2          *)
(* contingency-table metrics, the signal classification, the               *)
(* Benjamini-Hochberg batch correction and the time-series functions.      *)
(*                                                                         *)
(* Numbers.  The source computes in IEEE doubles.  The model computes the  *)
(* rational operations (+ - * /) exactly, on fractions n/d, and the        *)
(* transcendental ones (sqrt, log, exp) on a fixed decimal grid; rounding  *)
(* of doubles and overflow to Infinity are outside the model.  A fraction  *)
(* with d = 0 stands for a non-finite double (NaN, +-Infinity), which is   *)
(* what a division by zero or a log/sqrt out of its domain gives in JS.    *)
(***************************************************************************)
EXTENDS Integers, Sequences, FiniteSets, TLC

VARIABLES
    pc,         \* the name of the function about to be called, "done" after the call
    scores,     \* the batch handed to applyBenjaminiHochberg
    corrected,  \* the collection applyBenjaminiHochberg returned
    data,       \* the numeric series handed to a time-series function
    window,     \* its window argument
    ma,         \* the array movingAverage returned
    table,      \* the contingency table handed to computeDisproportionality
    score,      \* the score it returned, undefined before the call
    chi2Arg,    \* the statistic handed to chi2PValue1df in a call of its own
    pValue,     \* the p-value that call returned, undefined before the call
    threshold,  \* the optional threshold argument of detectSpikes and detectChangepoints
    zScores,    \* the array rollingZScore returned, undefined before the call
    points,     \* the trend points handed to detectSpikes and yearOverYear
    annotated,  \* the array detectSpikes returned, undefined before the call
    changepoints, \* the index list detectChangepoints returned, undefined before the call
    yearMap,    \* the map yearOverYear returned, undefined before the call
    scan,       \* the locals of detectChangepoints while its loop runs, undefined otherwise
    calls,      \* the invocations in progress when several run interleaved
    frames,     \* the locals of each of them
    params,     \* the search parameters handed to generateStudyId
    comparison, \* its optional comparison argument
    canonical,  \* the string canonicalParamsJSON built for it, undefined before the call
    studyId,    \* the object generateStudyId resolved to, undefined before the call
    manifest    \* the manifest generateManifest resolved to, undefined before the call

\* the variables of the time-series functions other than movingAverage, and
\* those of the manifest functions
analyzerVars == <<threshold, zScores, points, annotated, changepoints, yearMap, scan, calls, frames>>

manifestVars == <<params, comparison, canonical, studyId, manifest>>

vars ==
    <<pc, scores, corrected, data, window, ma, table, score, chi2Arg, pValue,
      analyzerVars, manifestVars>>

----------------------------------------------------------------------------
(* Bounds of the model *)

MaxBatch == 3      \* longest batch of scores
PGrid == 4         \* raw p-values are k/PGrid, k in 0..PGrid
MaxLen == 4        \* longest series, the documented examples apart
MaxValue == 3      \* largest value of a series, the documented examples apart
MaxWindow == 5     \* largest window argument
MaxCell == 4       \* largest cell of a table, the documented and named tables apart
MaxChi2Arg == 8    \* chi2PValue1df is called on its own with k/2, -2 <= k <= 2 * MaxChi2Arg
MaxLevel == 2      \* largest value of a series handed to the functions that take a square root
MaxDrugLen == 2    \* most characters of a drug name
MaxPoints == 3     \* most trend points handed to yearOverYear
MaxFlatLen == 13   \* longest flat series with one outlier at every position
LongFlatLen == 30  \* a flat series longer than twice the default window, outlier at three positions

----------------------------------------------------------------------------
(* JS numbers as exact fractions *)

Abs(x) == IF x < 0 THEN -x ELSE x

Sgn(x) == IF x < 0 THEN -1 ELSE IF x > 0 THEN 1 ELSE 0

RECURSIVE GCD(_, _)
GCD(x, y) == IF y = 0 THEN x ELSE GCD(y, x % y)

\* the fraction n/d in lowest terms, d >= 0; d = 0 is a non-finite number:
\* Infinity (n = 1), -Infinity (n = -1) or NaN (n = 0)
Rat(n, d) ==
    IF d = 0 THEN [n |-> Sgn(n), d |-> 0]
    ELSE LET g == GCD(Abs(n), Abs(d))
         IN  [n |-> (Sgn(d) * n) \div g, d |-> Abs(d) \div g]

NaN == [n |-> 0, d |-> 0]

R(k) == [n |-> k, d |-> 1]

IsFinite(x) == x.d # 0

IsNaN(x) == x.d = 0 /\ x.n = 0

RNeg(x) == [n |-> - x.n, d |-> x.d]

\* arithmetic as on doubles: NaN propagates, Infinity - Infinity and
\* 0 * Infinity are NaN, and an infinite operand otherwise gives its sign
RAdd(x, y) ==
    IF IsNaN(x) \/ IsNaN(y) THEN NaN
    ELSE IF x.d = 0 THEN (IF y.d = 0 /\ y.n # x.n THEN NaN ELSE x)
    ELSE IF y.d = 0 THEN y
    ELSE Rat(x.n * y.d + y.n * x.d, x.d * y.d)

RSub(x, y) == RAdd(x, RNeg(y))

RMul(x, y) ==
    IF x.d = 0 \/ y.d = 0 THEN Rat(Sgn(x.n) * Sgn(y.n), 0)
    ELSE Rat(x.n * y.n, x.d * y.d)

\* JS x / y: y = 0 gives +-Infinity, or NaN for 0 / 0
RDiv(x, y) ==
    IF IsNaN(x) \/ IsNaN(y) \/ (x.d = 0 /\ y.d = 0) THEN NaN
    ELSE IF x.d = 0 THEN Rat(IF y.n < 0 THEN - x.n ELSE x.n, 0)
    ELSE IF y.d = 0 THEN R(0)
    ELSE Rat(x.n * y.d, x.d * y.n)

\* comparisons; every comparison with NaN is false, and the infinities are
\* below and above every other number
RLt(x, y) ==
    /\ ~ IsNaN(x)
    /\ ~ IsNaN(y)
    /\ IF x.d = 0 /\ y.d = 0 THEN x.n < y.n ELSE x.n * y.d < y.n * x.d

RLe(x, y) ==
    /\ ~ IsNaN(x)
    /\ ~ IsNaN(y)
    /\ IF x.d = 0 /\ y.d = 0 THEN x.n <= y.n ELSE x.n * y.d <= y.n * x.d

REq(x, y) ==
    /\ ~ IsNaN(x)
    /\ ~ IsNaN(y)
    /\ IF x.d = 0 /\ y.d = 0 THEN x.n = y.n ELSE x.n * y.d = y.n * x.d

\* Math.min
RMin(x, y) == IF IsNaN(x) \/ IsNaN(y) THEN NaN ELSE IF RLt(y, x) THEN y ELSE x

\* Math.max
RMax(x, y) == IF IsNaN(x) \/ IsNaN(y) THEN NaN ELSE IF RLt(x, y) THEN y ELSE x

\* Math.abs
RAbs(x) == [n |-> Abs(x.n), d |-> x.d]

\* an optional field or array entry: <<>> is undefined/absent, <<v>> is the value v
Undefined == <<>>

Some(v) == <<v>>

IsDefined(o) == Len(o) = 1

----------------------------------------------------------------------------
(* Integers beyond the 32-bit range of TLC's integers: naturals as limbs in
   base 10000, least significant first, no leading zero limb; 0 is <<>>.
   Only the chi-squared statistic and the Woolf variance need them. *)

Base == 10000

RECURSIVE BNat(_)
BNat(k) == IF k = 0 THEN <<>> ELSE <<k % Base>> \o BNat(k \div Base)

RECURSIVE BAddC(_, _, _)
BAddC(x, y, carry) ==
    IF x = <<>> /\ y = <<>> THEN (IF carry = 0 THEN <<>> ELSE <<carry>>)
    ELSE LET xd == IF x = <<>> THEN 0 ELSE x[1]
             yd == IF y = <<>> THEN 0 ELSE y[1]
             t == xd + yd + carry
         IN  <<t % Base>> \o BAddC(IF x = <<>> THEN <<>> ELSE Tail(x),
                                   IF y = <<>> THEN <<>> ELSE Tail(y), t \div Base)

BAdd(x, y) == BAddC(x, y, 0)

\* x times one limb
RECURSIVE BMulLimb(_, _, _)
BMulLimb(x, limb, carry) ==
    IF limb = 0 THEN <<>>
    ELSE IF x = <<>> THEN (IF carry = 0 THEN <<>> ELSE <<carry>>)
    ELSE LET t == x[1] * limb + carry
         IN  <<t % Base>> \o BMulLimb(Tail(x), limb, t \div Base)

BShift(x) == IF x = <<>> THEN <<>> ELSE <<0>> \o x

RECURSIVE BMul(_, _)
BMul(x, y) ==
    IF y = <<>> \/ x = <<>> THEN <<>>
    ELSE BAdd(BMulLimb(x, y[1], 0), BShift(BMul(x, Tail(y))))

\* -1, 0, 1 as x is below, equal to, above y
RECURSIVE BCmpSameLen(_, _)
BCmpSameLen(x, y) ==
    IF x = <<>> THEN 0
    ELSE LET k == Len(x)
         IN  IF x[k] < y[k] THEN -1
             ELSE IF x[k] > y[k] THEN 1
             ELSE BCmpSameLen(SubSeq(x, 1, k - 1), SubSeq(y, 1, k - 1))

BCmp(x, y) ==
    IF Len(x) < Len(y) THEN -1
    ELSE IF Len(x) > Len(y) THEN 1
    ELSE BCmpSameLen(x, y)

\* a fraction of such integers with its sign; d = <<>> is a non-finite number
BR(n, d) == [neg |-> FALSE, n |-> n, d |-> d]

\* the fraction k/d of integers, d > 0
BRFrac(k, d) == [neg |-> k < 0, n |-> BNat(Abs(k)), d |-> BNat(d)]

BRInt(k) == BR(BNat(k), BNat(1))

BRIsFinite(x) == x.d # <<>>

\* x + y of two numbers that are not negative; n / <<>> is Infinity, and NaN
\* for n = <<>>
BRAdd(x, y) ==
    IF (x.d = <<>> /\ x.n = <<>>) \/ (y.d = <<>> /\ y.n = <<>>) THEN BR(<<>>, <<>>)
    ELSE IF x.d = <<>> \/ y.d = <<>> THEN BR(BNat(1), <<>>)
    ELSE BR(BAdd(BMul(x.n, y.d), BMul(y.n, x.d)), BMul(x.d, y.d))

\* JS x / y on non-negative integers
BRDiv(x, y) == BR(x, y)

BRIsZero(x) == x.d # <<>> /\ x.n = <<>>

\* x <= 0
BRLeZero(x) == x.d # <<>> /\ (x.n = <<>> \/ x.neg)

\* x >= k for an integer k >= 0
BRGeInt(x, k) ==
    /\ x.n # <<>> \/ x.d # <<>>
    /\ IF x.neg /\ x.n # <<>> THEN FALSE
       ELSE x.d = <<>> \/ BCmp(x.n, BMul(x.d, BNat(k))) >= 0

----------------------------------------------------------------------------
(* sqrt, log and exp.  Their results are irrational; the model computes them
   on the grid of multiples of 1/Scale, as integers counting such units,
   rounded down, by integer algorithms good to about three decimals. *)

Scale == 10000

\* ln 2 in units of 1/1000000
Ln2Micro == 693147

\* the units of a grid number, and the grid number of some units
UnitsOf(x) == x.n * (Scale \div x.d)

Fix(u) == Rat(u, Scale)

\* floor(10 * r / q) and the remainder, by ten additions (no overflow, q < 2^30)
RECURSIVE DigitStep(_, _, _, _, _)
DigitStep(r, q, times, acc, dig) ==
    IF times = 0 THEN [dig |-> dig, rem |-> acc]
    ELSE IF acc + r >= q THEN DigitStep(r, q, times - 1, acc + r - q, dig + 1)
    ELSE DigitStep(r, q, times - 1, acc + r, dig)

\* the first `digits` decimals of r / q, 0 <= r < q, as an integer
RECURSIVE Decimals(_, _, _, _)
Decimals(r, q, digits, acc) ==
    IF digits = 0 THEN acc
    ELSE LET s == DigitStep(r, q, 10, 0, 0)
         IN  Decimals(s.rem, q, digits - 1, 10 * acc + s.dig)

\* floor(n * Scale / q) for n >= 0, q > 0
FloorUnits(n, q) == (n \div q) * Scale + Decimals(n % q, q, 4, 0)

\* the units of a fraction, rounded towards zero
ToUnits(x) ==
    IF x.n >= 0 THEN FloorUnits(x.n, x.d) ELSE -FloorUnits(-x.n, x.d)

\* x * y and x / y of units, rounded towards zero; |y| stays below 21 * Scale
UMul(x, y) ==
    LET ax == Abs(x)
        ay == Abs(y)
    IN  Sgn(x) * Sgn(y) * ((ax \div Scale) * ay + ((ax % Scale) * ay) \div Scale)

UDiv(x, y) == Sgn(x) * Sgn(y) * FloorUnits(Abs(x), Abs(y))

\* the largest u with u^2 * d <= n, for a fraction n/d of big integers, by
\* bisection on lo <= u < hi
RECURSIVE SqrtBisect(_, _, _)
SqrtBisect(x, lo, hi) ==
    IF hi - lo <= 1 THEN lo
    ELSE LET mid == (lo + hi) \div 2
             sq == BMul(BNat(mid), BNat(mid))
         IN  IF BCmp(BMul(sq, x.d), x.n) <= 0
             THEN SqrtBisect(x, mid, hi)
             ELSE SqrtBisect(x, lo, mid)

\* Math.sqrt of a non-negative fraction of big integers, in units:
\* the root of the fraction times Scale^2, sought below 1, below 100 or below 100000
USqrt(x) ==
    LET hi == IF BCmp(x.n, x.d) < 0 THEN Scale + 1
              ELSE IF BCmp(x.n, BMul(x.d, BNat(Base))) < 0 THEN 100 * Scale + 1
              ELSE 1073741824
    IN  SqrtBisect(BR(BMul(x.n, BNat(Scale * Scale)), x.d), 0, hi)

\* x = m * 2^k with 1 <= m < 2, for a fraction n/d > 0: <<n', d', k>>, m = n'/d'
RECURSIVE Normalise(_, _, _)
Normalise(n, d, k) ==
    IF n \div 2 >= d THEN Normalise(n, 2 * d, k + 1)
    ELSE IF n < d THEN Normalise(2 * n, d, k - 1)
    ELSE <<n, d, k>>

\* atanh(z) = z + z^3/3 + z^5/5 + ..., in units, 0 <= z < 1/3
RECURSIVE AtanhSeries(_, _, _, _)
AtanhSeries(term, z2, i, sum) ==
    IF term = 0 THEN sum
    ELSE AtanhSeries(UMul(term, z2), z2, i + 2, sum + term \div i)

\* ln m for the mantissa m = n/d: 2 atanh((m - 1) / (m + 1))
LnMantissa(n, d) ==
    LET z == FloorUnits(n - d, n + d)
    IN  2 * AtanhSeries(z, UMul(z, z), 1, 0)

\* Math.log of a fraction, in units; NaN for an argument that is not positive
ULn(x) ==
    LET p == Normalise(x.n, x.d, 0)
    IN  (p[3] * Ln2Micro) \div 100 + LnMantissa(p[1], p[2])

\* Math.log2 of a fraction, in units
ULog2(x) ==
    LET p == Normalise(x.n, x.d, 0)
    IN  p[3] * Scale + (LnMantissa(p[1], p[2]) * 100000) \div (Ln2Micro \div 10)

\* e^r = 1 + r + r^2/2! + ..., in units, 0 <= r < ln 2
RECURSIVE ExpSeries(_, _, _, _)
ExpSeries(term, r, i, sum) ==
    IF term = 0 THEN sum
    ELSE ExpSeries(UMul(term, r) \div i, r, i + 1, sum + term)

RECURSIVE Pow2(_)
Pow2(k) == IF k = 0 THEN 1 ELSE 2 * Pow2(k - 1)

\* Math.exp of units, in units: e^u = 2^k e^r with u = k ln 2 + r
UExp(u) ==
    LET micro == u * 100
        k == micro \div Ln2Micro
        r == (micro - k * Ln2Micro) \div 100
        er == ExpSeries(Scale, r, 1, 0)
    IN  IF k >= 0 THEN er * Pow2(k)
        ELSE IF k < -30 THEN 0
        ELSE er \div Pow2(-k)

\* arithmetic on the grid, for the formulas that involve sqrt, log or exp;
\* non-finite operands as in RAdd, RMul and RDiv
FAdd(x, y) == IF x.d = 0 \/ y.d = 0 THEN RAdd(x, y) ELSE Fix(ToUnits(x) + ToUnits(y))

FSub(x, y) == IF x.d = 0 \/ y.d = 0 THEN RSub(x, y) ELSE Fix(ToUnits(x) - ToUnits(y))

FMul(x, y) == IF x.d = 0 \/ y.d = 0 THEN RMul(x, y) ELSE Fix(UMul(ToUnits(x), ToUnits(y)))

FDiv(x, y) ==
    IF x.d = 0 \/ y.d = 0 THEN RDiv(x, y)
    ELSE IF ToUnits(y) = 0 THEN Rat(x.n, 0)
    ELSE Fix(UDiv(ToUnits(x), ToUnits(y)))

\* x < y on the grid; false if either is NaN
FLt(x, y) == IF x.d = 0 \/ y.d = 0 THEN RLt(x, y) ELSE ToUnits(x) < ToUnits(y)

\* Math.sqrt: NaN below 0, Infinity at Infinity
MathSqrtBR(x) ==
    IF x.neg /\ x.n # <<>> THEN NaN
    ELSE IF x.d = <<>> THEN Rat(Len(x.n), 0)
    ELSE Fix(USqrt(x))

MathSqrt(x) ==
    IF x.n < 0 THEN NaN
    ELSE IF x.d = 0 THEN x
    ELSE Fix(USqrt(BRFrac(x.n, x.d)))

\* Math.log and Math.log2: -Infinity at 0, NaN below 0, Infinity at Infinity
MathLog(x) ==
    IF x.d = 0 THEN (IF x.n > 0 THEN x ELSE NaN)
    ELSE IF x.n <= 0 THEN Rat(IF x.n = 0 THEN -1 ELSE 0, 0)
    ELSE Fix(ULn(x))

MathLog2(x) ==
    IF x.d = 0 THEN (IF x.n > 0 THEN x ELSE NaN)
    ELSE IF x.n <= 0 THEN Rat(IF x.n = 0 THEN -1 ELSE 0, 0)
    ELSE Fix(ULog2(x))

\* Math.exp: 0 at -Infinity, Infinity at Infinity
MathExp(x) ==
    IF x.d = 0 THEN (IF x.n < 0 THEN R(0) ELSE x)
    ELSE Fix(UExp(ToUnits(x)))

\* Math.LN2
LN2 == Fix(Ln2Micro \div 100)

----------------------------------------------------------------------------
(* The metric calculators *)

\* the coefficients of normalCDF, in units of 1/Scale
CdfA1 == 2548
CdfA2 == -2845
CdfA3 == 14214
CdfA4 == -14532
CdfA5 == 10614
CdfP == 3276

normalCDF(x) ==
    IF RLt(x, R(-8)) THEN R(0)
    ELSE IF RLt(R(8), x) THEN R(1)
    ELSE LET sign == IF RLt(x, R(0)) THEN R(-1) ELSE R(1)
             absX == IF RLt(x, R(0)) THEN FSub(R(0), x) ELSE x
             t == FDiv(R(1), FAdd(R(1), FMul(Fix(CdfP), absX)))
             poly == FAdd(FMul(FAdd(FMul(FAdd(FMul(FAdd(FMul(Fix(CdfA5), t),
                         Fix(CdfA4)), t), Fix(CdfA3)), t), Fix(CdfA2)), t), Fix(CdfA1))
             y == FSub(R(1), FMul(FMul(poly, t),
                         MathExp(FDiv(FSub(R(0), FMul(absX, absX)), R(2)))))
         IN  FMul(Rat(1, 2), FAdd(R(1), FMul(sign, y)))

chi2PValue1df(chi2) ==
    IF BRLeZero(chi2) THEN R(1)
    ELSE FMul(R(2), FSub(R(1), normalCDF(MathSqrtBR(chi2))))

\* computePRR with the comparator rate taken over all reports, c / n
computePRR_OverTotal(t) ==
    IF t.a + t.b = 0 \/ t.c + t.d = 0 \/ t.c = 0 THEN R(0)
    ELSE RDiv(RDiv(R(t.a), R(t.a + t.b)), RDiv(R(t.c), R(t.a + t.b + t.c + t.d)))

\* computePRR with the two rates the wrong way round
computePRR_Inverted(t) ==
    IF t.a + t.b = 0 \/ t.c + t.d = 0 \/ t.c = 0 THEN R(0)
    ELSE RDiv(RDiv(R(t.c), R(t.c + t.d)), RDiv(R(t.a), R(t.a + t.b)))

\* computePRR without the c === 0 guard
computePRR_NoCGuard(t) ==
    IF t.a + t.b = 0 \/ t.c + t.d = 0 THEN R(0)
    ELSE RDiv(RDiv(R(t.a), R(t.a + t.b)), RDiv(R(t.c), R(t.c + t.d)))

computePRR(t) ==
    IF t.a + t.b = 0 \/ t.c + t.d = 0 \/ t.c = 0 THEN R(0)
    ELSE RDiv(RDiv(R(t.a), R(t.a + t.b)), RDiv(R(t.c), R(t.c + t.d)))

\* computeChi2 with the total read from the table (const { a, b, c, d, n } = t)
computeChi2_SuppliedN(t) ==
    LET n == t.n
        denom == BMul(BMul(BMul(BNat(t.a + t.b), BNat(t.c + t.d)), BNat(t.a + t.c)),
                      BNat(t.b + t.d))
        diff == BNat(Abs(t.a * t.d - t.b * t.c))
        num == BMul(BMul(diff, diff), BNat(n))
    IN  IF denom = <<>> THEN BRFrac(0, 1) ELSE BRDiv(num, denom)

computeChi2(t) ==
    LET n == t.a + t.b + t.c + t.d
        denom == BMul(BMul(BMul(BNat(t.a + t.b), BNat(t.c + t.d)), BNat(t.a + t.c)),
                      BNat(t.b + t.d))
        diff == BNat(Abs(t.a * t.d - t.b * t.c))
        num == BMul(BMul(diff, diff), BNat(n))
    IN  IF denom = <<>> THEN BRFrac(0, 1) ELSE BRDiv(num, denom)

computeROR(t) ==
    IF t.b = 0 \/ t.c = 0 THEN R(0)
    ELSE RDiv(R(t.a * t.d), R(t.b * t.c))

\* 1 / cell as a fraction of big integers; 1 / 0 is Infinity
Reciprocal(cell) == BR(BNat(1), BNat(cell))

\* 1.96, the normal quantile of the 95% bounds
Z95 == Rat(196, 100)

\* computeROR_CI without the d === 0 guard
computeROR_CI_NoDGuard(t) ==
    IF t.a = 0 \/ t.b = 0 \/ t.c = 0 THEN [lower |-> R(0), upper |-> R(0)]
    ELSE LET lnROR == MathLog(RDiv(R(t.a * t.d), R(t.b * t.c)))
             se == MathSqrtBR(BRAdd(BRAdd(BRAdd(Reciprocal(t.a), Reciprocal(t.b)),
                                          Reciprocal(t.c)), Reciprocal(t.d)))
         IN  [lower |-> MathExp(FSub(lnROR, FMul(Z95, se))),
              upper |-> MathExp(FAdd(lnROR, FMul(Z95, se)))]

\* computeROR_CI on the odds ratio the wrong way round, (b * c) / (a * d)
computeROR_CI_InvertedOdds(t) ==
    IF t.a = 0 \/ t.b = 0 \/ t.c = 0 \/ t.d = 0 THEN [lower |-> R(0), upper |-> R(0)]
    ELSE LET lnROR == MathLog(RDiv(R(t.b * t.c), R(t.a * t.d)))
             se == MathSqrtBR(BRAdd(BRAdd(BRAdd(Reciprocal(t.a), Reciprocal(t.b)),
                                          Reciprocal(t.c)), Reciprocal(t.d)))
         IN  [lower |-> MathExp(FSub(lnROR, FMul(Z95, se))),
              upper |-> MathExp(FAdd(lnROR, FMul(Z95, se)))]

computeROR_CI(t) ==
    IF t.a = 0 \/ t.b = 0 \/ t.c = 0 \/ t.d = 0 THEN [lower |-> R(0), upper |-> R(0)]
    ELSE LET lnROR == MathLog(RDiv(R(t.a * t.d), R(t.b * t.c)))
             se == MathSqrtBR(BRAdd(BRAdd(BRAdd(Reciprocal(t.a), Reciprocal(t.b)),
                                          Reciprocal(t.c)), Reciprocal(t.d)))
         IN  [lower |-> MathExp(FSub(lnROR, FMul(Z95, se))),
              upper |-> MathExp(FAdd(lnROR, FMul(Z95, se)))]

computeIC(t) ==
    LET n == t.a + t.b + t.c + t.d
        expected == RDiv(R((t.a + t.b) * (t.a + t.c)), R(n))
    IN  IF t.a = 0 \/ t.a + t.b = 0 \/ t.a + t.c = 0 THEN R(0)
        ELSE IF REq(expected, R(0)) THEN R(0)
        ELSE MathLog2(RDiv(R(t.a), expected))

\* se = 1 / (Math.LN2 * Math.sqrt(Math.max(a, 0.5)))
ICStandardError(a) == FDiv(R(1), FMul(LN2, MathSqrt(RMax(R(a), Rat(1, 2)))))

computeIC025(t) ==
    LET ic == computeIC(t)
    IN  IF t.a <= 0 THEN R(0)
        ELSE FSub(ic, FMul(Z95, ICStandardError(t.a)))

computeIC975(t) ==
    LET ic == computeIC(t)
    IN  IF t.a <= 0 THEN R(0)
        ELSE FAdd(ic, FMul(Z95, ICStandardError(t.a)))

\* IsSignal with the count test written a > 3
IsSignal_CountAbove3(prr, chi2, a) == RLe(R(2), prr) /\ BRGeInt(chi2, 4) /\ a > 3

\* Evans criteria: prr >= 2 && chi2 >= 4 && table.a >= 3
IsSignal(prr, chi2, a) == RLe(R(2), prr) /\ BRGeInt(chi2, 4) /\ a >= 3

\* lower > 1 && ic025 > 0
IsStrongSignal(lower, ic025) == RLt(R(1), lower) /\ RLt(R(0), ic025)

computeDisproportionality(reaction, count, t) ==
    LET prr == computePRR(t)
        chi2 == computeChi2(t)
        pv == chi2PValue1df(chi2)
        ror == computeROR(t)
        ci == computeROR_CI(t)
        ic == computeIC(t)
        ic025 == computeIC025(t)
        ic975 == computeIC975(t)
    IN  [reaction |-> reaction, count |-> count, table |-> t,
         prr |-> prr, prrChi2 |-> chi2, prrPValue |-> pv,
         ror |-> ror, rorLower95 |-> ci.lower, rorUpper95 |-> ci.upper,
         ic |-> ic, ic025 |-> ic025, ic975 |-> ic975,
         isSignal |-> IsSignal(prr, chi2, t.a),
         isStrongSignal |-> IsStrongSignal(ci.lower, ic025),
         \* the optional fdrPValue is not among the properties of the literal
         fdrPValue |-> Undefined]

----------------------------------------------------------------------------
(* applyBenjaminiHochberg *)

\* indexed.sort((a, b) => a.p - b.p): Array.prototype.sort is stable, so an
\* item goes behind every item already placed whose p is not larger
RECURSIVE InsertByP(_, _)
InsertByP(sorted, item) ==
    IF sorted = <<>> THEN <<item>>
    ELSE LET last == sorted[Len(sorted)]
         IN  IF RLe(last.p, item.p) THEN Append(sorted, item)
             ELSE Append(InsertByP(SubSeq(sorted, 1, Len(sorted) - 1), item), last)

RECURSIVE SortByP(_)
SortByP(indexed) ==
    IF indexed = <<>> THEN <<>>
    ELSE InsertByP(SortByP(SubSeq(indexed, 1, Len(indexed) - 1)), indexed[Len(indexed)])

\* RawAdjusted with the 0-based array index taken for the rank's divisor shifted by one
RawAdjusted_RankOffByOne(p, m, rank) == RDiv(RMul(p, R(m)), R(rank + 1))

\* RawAdjusted without the factor m / rank
RawAdjusted_Unscaled(p, m, rank) == p

\* the value the walk gives rank `rank`, before the running minimum
RawAdjusted(p, m, rank) == RDiv(RMul(p, R(m)), R(rank))

\* StepCumMin without the step-up enforcement: the raw value alone
StepCumMin_NoEnforcement(cumMin, raw) == raw

\* one pass of the loop body: the running minimum takes in the raw value
StepCumMin(cumMin, raw) == RMin(cumMin, raw)

\* for (let rank = m; rank >= 1; rank--): adjusted is a function idx -> number
RECURSIVE WalkRanks(_, _, _, _, _)
WalkRanks(indexed, m, rank, cumMin, adjusted) ==
    IF rank < 1 THEN adjusted
    ELSE LET item == indexed[rank]
             raw == RawAdjusted(item.p, m, rank)
             cm == StepCumMin(cumMin, raw)
         IN  WalkRanks(indexed, m, rank - 1, cm,
                       [adjusted EXCEPT ![item.idx] = RMin(cm, R(1))])

\* one pass of the walk on the locals l: m, indexed, rank, cumMin, adjusted
WalkStep(l) ==
    LET item == l.indexed[l.rank]
        raw == RawAdjusted(item.p, l.m, l.rank)
        cm == StepCumMin(l.cumMin, raw)
    IN  [l EXCEPT !.rank = @ - 1, !.cumMin = cm,
                  !.adjusted = [@ EXCEPT ![item.idx] = RMin(cm, R(1))]]

\* the array `adjusted`, indexed by original position
Adjusted(batch) ==
    LET m == Len(batch)
        indexed == SortByP([i \in 1..m |-> [idx |-> i, p |-> batch[i].prrPValue]])
    IN  WalkRanks(indexed, m, m, R(1), [i \in 1..m |-> NaN])

\* scores.map((s, i) => ({ ...s, fdrPValue: adjusted[i] }))
WithFdr(batch, adjusted) ==
    [i \in 1..Len(batch) |-> [batch[i] EXCEPT !.fdrPValue = Some(adjusted[i])]]

\* applyBenjaminiHochberg writing fdrPValue into the caller's scores (s.fdrPValue = ...)
applyBenjaminiHochberg_InPlace(batch) ==
    IF Len(batch) = 0 THEN [input |-> batch, output |-> batch]
    ELSE [input |-> WithFdr(batch, Adjusted(batch)), output |-> WithFdr(batch, Adjusted(batch))]

\* the call: `input` is the caller's array as the call leaves it, `output` what
\* it returns
applyBenjaminiHochberg(batch) ==
    IF Len(batch) = 0 THEN [input |-> batch, output |-> batch]
    ELSE [input |-> batch, output |-> WithFdr(batch, Adjusted(batch))]

----------------------------------------------------------------------------
(* movingAverage *)

\* data[j] of a 0-based index: reading outside the array gives undefined, and
\* adding undefined to a number gives NaN
At(arr, j) == IF j >= 0 /\ j < Len(arr) THEN R(arr[j + 1]) ELSE NaN

\* MAUndefined with the guard one too strict (i < window)
MAUndefined_OneLate(i, w) == i < w

\* if (i < window - 1) return undefined
MAUndefined(i, w) == i < w - 1

\* for (let j = ...; j <= i; j++) sum += data[j]
RECURSIVE SumLoop(_, _, _, _)
SumLoop(arr, j, i, sum) ==
    IF j > i THEN sum ELSE SumLoop(arr, j + 1, i, RAdd(sum, At(arr, j)))

\* the callback of data.map for the 0-based index i
MAEntry(arr, w, i) ==
    IF MAUndefined(i, w) THEN Undefined
    ELSE Some(RDiv(SumLoop(arr, i - w + 1, i, R(0)), R(w)))

movingAverage(arr, w) == [k \in 1..Len(arr) |-> MAEntry(arr, w, k - 1)]

----------------------------------------------------------------------------
(* rollingZScore *)

\* HalfWidth rounding the half up (Math.ceil)
HalfWidth_Ceil(w) == (w + 1) \div 2

\* const halfW = Math.floor(window / 2)
HalfWidth(w) == w \div 2

\* slice.reduce((s, v) => s + v, 0) over the positions lo..hi of the slice: the
\* sum of the first half and of the second half (integer sums are exact in
\* any order)
RECURSIVE ReduceSum(_, _, _)
ReduceSum(slice, lo, hi) ==
    IF lo > hi THEN 0
    ELSE IF lo = hi THEN slice[lo]
    ELSE ReduceSum(slice, lo, (lo + hi) \div 2) + ReduceSum(slice, (lo + hi) \div 2 + 1, hi)

\* the mean of a non-empty slice; of an empty one 0 / 0
SliceMean(slice) == RDiv(R(ReduceSum(slice, 1, Len(slice))), R(Len(slice)))

\* slice.reduce((s, v) => s + (v - mean) ** 2, 0) over the positions lo..hi:
\* every term is a fraction over mean.d^2, so the sum is kept as a big integer
\* over that denominator
RECURSIVE SumSquares(_, _, _, _)
SumSquares(slice, mean, lo, hi) ==
    IF lo > hi THEN <<>>
    ELSE IF lo = hi
         THEN LET dev == Abs(slice[lo] * mean.d - mean.n)
              IN  BMul(BNat(dev), BNat(dev))
    ELSE BAdd(SumSquares(slice, mean, lo, (lo + hi) \div 2),
              SumSquares(slice, mean, (lo + hi) \div 2 + 1, hi))

\* the population variance: that sum / slice.length
SliceVariance(slice, mean) ==
    IF mean.d = 0 THEN BR(<<>>, <<>>)
    ELSE BR(SumSquares(slice, mean, 1, Len(slice)),
            BMul(BMul(BNat(mean.d), BNat(mean.d)), BNat(Len(slice))))

\* the callback of data.map for the 0-based index i
ZEntry(arr, halfW, i) ==
    LET start == IF i - halfW > 0 THEN i - halfW ELSE 0
        end == IF i + halfW < Len(arr) - 1 THEN i + halfW ELSE Len(arr) - 1
        slice == SubSeq(arr, start + 1, end + 1)
        mean == SliceMean(slice)
        std == MathSqrtBR(SliceVariance(slice, mean))
    IN  IF Len(slice) < 3 THEN Undefined
        ELSE IF REq(std, R(0)) THEN Some(R(0))
        ELSE Some(FDiv(RSub(R(arr[i + 1]), mean), std))

rollingZScore(arr, w) == [k \in 1..Len(arr) |-> ZEntry(arr, HalfWidth(w), k - 1)]

----------------------------------------------------------------------------
(* detectSpikes *)

\* the defaults of its parameters: window = 12, threshold = 2.0
DefaultWindow == 12

DefaultThreshold == R(2)

\* an optional argument, or its default when it is left out
OrDefault(arg, dflt) == IF IsDefined(arg) THEN arg[1] ELSE dflt

\* data.map((d) => d.count)
Counts(pts) == [k \in 1..Len(pts) |-> pts[k].count]

\* Math.min(window, Math.max(3, Math.floor(data.length / 4)))
MAWindow(w, len) ==
    LET quarter == IF len \div 4 > 3 THEN len \div 4 ELSE 3
    IN  IF w < quarter THEN w ELSE quarter

\* ZWindow without the clip to the length of the series
ZWindow_Unclipped(w, len) == w * 2

\* Math.min(window * 2, data.length)
ZWindow(w, len) == IF w * 2 < len THEN w * 2 ELSE len

\* IsSpike with the threshold itself counted as exceeded (>=)
IsSpike_AtThreshold(z, thr) == IsDefined(z) /\ RLe(thr, RAbs(z[1]))

\* zScores[i] !== undefined && Math.abs(zScores[i]!) > threshold
IsSpike(z, thr) == IsDefined(z) /\ RLt(thr, RAbs(z[1]))

\* the returned array: each point with ma, zScore and isSpike added
detectSpikes(pts, w, thr) ==
    LET counts == Counts(pts)
        mas == movingAverage(counts, MAWindow(w, Len(pts)))
        zs == rollingZScore(counts, ZWindow(w, Len(pts)))
    IN  [k \in 1..Len(pts) |->
            [time |-> pts[k].time, count |-> pts[k].count, label |-> pts[k].label,
             ma |-> mas[k], zScore |-> zs[k], isSpike |-> IsSpike(zs[k], thr)]]

\* DetectSpikesCall with the annotations written into the caller's points
\* (point.ma = ...; return data)
DetectSpikesCall_InPlace(pts, w, thr) ==
    [input |-> detectSpikes(pts, w, thr), output |-> detectSpikes(pts, w, thr)]

\* the call: `input` is the caller's array as the call leaves it (data.map
\* and the spread only read it), `output` what it returns
DetectSpikesCall(pts, w, thr) ==
    [input |-> pts, output |-> detectSpikes(pts, w, thr)]

----------------------------------------------------------------------------
(* detectChangepoints *)

\* TooShort with only the empty series taken for too short
TooShort_OnlyEmpty(arr) == Len(arr) < 1

\* if (data.length < 10) return []
TooShort(arr) == Len(arr) < 10

\* Slack with the whole of the standard deviation for the drift term
Slack_WholeStd(std) == std

\* std * 0.5
Slack(std) == FMul(std, Rat(1, 2))

\* CusumStep with the accumulators kept on a report
CusumStep_NoReset(arr, c, i, s) ==
    LET diff == RSub(R(arr[i + 1]), c.mean)
        up == RMax(R(0), FSub(FAdd(s.sPos, diff), Slack(c.std)))
        down == RMin(R(0), FAdd(FAdd(s.sNeg, diff), Slack(c.std)))
    IN  IF FLt(c.h, up) \/ FLt(down, RSub(R(0), c.h))
        THEN [sPos |-> up, sNeg |-> down, changepoints |-> Append(s.changepoints, i)]
        ELSE [sPos |-> up, sNeg |-> down, changepoints |-> s.changepoints]

\* the body of the loop for the 0-based index i: c holds mean, std and h; s
\* holds sPos, sNeg and the changepoints found so far; the sums run on the
\* grid, as std does
CusumStep(arr, c, i, s) ==
    LET diff == RSub(R(arr[i + 1]), c.mean)
        up == RMax(R(0), FSub(FAdd(s.sPos, diff), Slack(c.std)))
        down == RMin(R(0), FAdd(FAdd(s.sNeg, diff), Slack(c.std)))
    IN  IF FLt(c.h, up) \/ FLt(down, RSub(R(0), c.h))
        THEN [sPos |-> R(0), sNeg |-> R(0), changepoints |-> Append(s.changepoints, i)]
        ELSE [sPos |-> up, sNeg |-> down, changepoints |-> s.changepoints]

\* for (let i = lo; i <= hi; i++) from the state s: the passes lo..mid, then
\* the passes mid+1..hi from the state `half` those have left
RECURSIVE CusumLoop(_, _, _, _, _)
CusumLoop(arr, c, lo, hi, s) ==
    IF lo > hi THEN s
    ELSE IF lo = hi THEN CusumStep(arr, c, lo, s)
    ELSE CHOOSE end \in
             {CusumLoop(arr, c, (lo + hi) \div 2 + 1, hi, half) :
                  half \in {CusumLoop(arr, c, lo, (lo + hi) \div 2, s)}} : TRUE

\* for (let i = 1; ...): the 0-based index the scan starts at
FirstIndex == 1

\* the list of 0-based indices returned; threshold ?? std * 4
detectChangepoints(arr, thr) ==
    IF TooShort(arr) THEN <<>>
    ELSE LET mean == SliceMean(arr)
             std == MathSqrtBR(SliceVariance(arr, mean))
             h == OrDefault(thr, FMul(std, R(4)))
             start == [sPos |-> R(0), sNeg |-> R(0), changepoints |-> <<>>]
         IN  CusumLoop(arr, [mean |-> mean, std |-> std, h |-> h],
                       FirstIndex, Len(arr) - 1, start).changepoints

----------------------------------------------------------------------------
(* yearOverYear.  A string is the sequence of its characters. *)

DigitChars == <<"0", "1", "2", "3", "4", "5", "6", "7", "8", "9">>

IsDigit(ch) == \E k \in 1..10 : DigitChars[k] = ch

DigitValue(ch) == CHOOSE k \in 0..9 : DigitChars[k + 1] = ch

\* str.slice(from, to) for 0 <= from <= to: the end is clipped to the string
StrSlice(str, from, to) == SubSeq(str, from + 1, IF to < Len(str) THEN to ELSE Len(str))

\* the number the leading digits of str spell after the digits read so far
RECURSIVE ParseDigits(_, _)
ParseDigits(str, acc) ==
    IF str = <<>> \/ ~ IsDigit(str[1]) THEN acc
    ELSE ParseDigits(Tail(str), 10 * acc + DigitValue(str[1]))

\* parseInt(str) of a string of digits and "-": an optional sign and the
\* leading digits; NaN if no digit follows
parseInt(str) ==
    LET neg == str # <<>> /\ str[1] = "-"
        body == IF neg THEN Tail(str) ELSE str
    IN  IF body = <<>> \/ ~ IsDigit(body[1]) THEN NaN
        ELSE R((IF neg THEN -1 ELSE 1) * ParseDigits(body, 0))

\* the position of the key in the map, 0 if !yearMap.has(year)
FindYear(map, year) ==
    IF \E k \in 1..Len(map) : map[k].year = year
    THEN CHOOSE k \in 1..Len(map) : map[k].year = year
    ELSE 0

\* yearMap.get(year)!.find((e) => e.month === month): the position of the
\* first such entry, 0 if there is none; NaN === NaN is false
FindMonth(entries, month) ==
    IF \E k \in 1..Len(entries) : REq(entries[k].month, month)
    THEN CHOOSE k \in 1..Len(entries) :
             /\ REq(entries[k].month, month)
             /\ \A j \in 1..(k - 1) : ~ REq(entries[j].month, month)
    ELSE 0

\* MergeCount with the count of the entry overwritten (existing.count = d.count)
MergeCount_Overwrite(existing, count) == count

\* existing.count += d.count
MergeCount(existing, count) == existing + count

\* the callback of data.forEach: the map, in insertion order of its keys,
\* after the point d
AddPoint(map, d) ==
    LET year == StrSlice(d.time, 0, 4)
        month == parseInt(StrSlice(d.time, 4, 6))
        map1 == IF FindYear(map, year) = 0
                THEN Append(map, [year |-> year, months |-> <<>>])
                ELSE map
        y == FindYear(map1, year)
        e == FindMonth(map1[y].months, month)
    IN  IF e # 0
        THEN [map1 EXCEPT ![y].months[e].count = MergeCount(@, d.count)]
        ELSE [map1 EXCEPT ![y].months = Append(@, [month |-> month, count |-> d.count])]

RECURSIVE yearOverYear(_)
yearOverYear(pts) ==
    IF pts = <<>> THEN <<>>
    ELSE AddPoint(yearOverYear(SubSeq(pts, 1, Len(pts) - 1)), pts[Len(pts)])

\* the entry of the map the point d was counted into
EntryOf(map, d) ==
    LET y == FindYear(map, StrSlice(d.time, 0, 4))
    IN  map[y].months[FindMonth(map[y].months, parseInt(StrSlice(d.time, 4, 6)))]

\* the call with the first point of a month kept as the entry of the map
\* (push(d) in place of push({ month, count: d.count })): existing.count += ...
\* then adds to the caller's point
YearOverYearCall_SharedEntries(pts) ==
    LET map == yearOverYear(pts)
        first(k) == \A j \in 1..(k - 1) :
                        \/ StrSlice(pts[j].time, 0, 4) # StrSlice(pts[k].time, 0, 4)
                        \/ ~ REq(parseInt(StrSlice(pts[j].time, 4, 6)),
                                 parseInt(StrSlice(pts[k].time, 4, 6)))
    IN  [input |-> [k \in 1..Len(pts) |->
                       IF IsFinite(parseInt(StrSlice(pts[k].time, 4, 6))) /\ first(k)
                       THEN [pts[k] EXCEPT !.count = EntryOf(map, pts[k]).count]
                       ELSE pts[k]],
         output |-> map]

\* the call: `input` is the caller's array as the call leaves it (forEach reads
\* d.time and d.count, and the entries pushed are new objects), `output` the map
YearOverYearCall(pts) == [input |-> pts, output |-> yearOverYear(pts)]

----------------------------------------------------------------------------
(* manifest.ts: canonicalParamsJSON and generateStudyId *)

Whitespace == {" "}

RECURSIVE TrimStart(_)
TrimStart(str) ==
    IF str # <<>> /\ str[1] \in Whitespace THEN TrimStart(Tail(str)) ELSE str

RECURSIVE TrimEnd(_)
TrimEnd(str) ==
    IF str # <<>> /\ str[Len(str)] \in Whitespace
    THEN TrimEnd(SubSeq(str, 1, Len(str) - 1))
    ELSE str

trim(str) == TrimEnd(TrimStart(str))

UpperOf(ch) == IF ch = "a" THEN "A" ELSE IF ch = "b" THEN "B" ELSE ch

toUpperCase(str) == [k \in 1..Len(str) |-> UpperOf(str[k])]

\* Normalised with the surrounding whitespace kept
Normalised_Untrimmed(str) == toUpperCase(str)

\* str.trim().toUpperCase()
Normalised(str) == toUpperCase(trim(str))

\* the characters of a string put together
RECURSIVE Join(_)
Join(chars) == IF chars = <<>> THEN "" ELSE chars[1] \o Join(Tail(chars))

\* the JSON text of a string none of whose characters needs an escape
Quoted(text) == "\"" \o text \o "\""

\* the JSON text of a boolean
BooleanText(b) == IF b THEN "true" ELSE "false"

\* Object.keys(canonical).sort()
SortedKeys == <<"charMode", "comparator", "dateFrom", "dateTo", "dedupMode", "drug", "serious">>

\* the members of keys[k..] of JSON.stringify(obj, keys); obj holds the JSON
\* text of each value
RECURSIVE Members(_, _, _)
Members(obj, keys, k) ==
    IF k > Len(keys) THEN ""
    ELSE Quoted(keys[k]) \o ":" \o obj[keys[k]]
             \o (IF k < Len(keys) THEN "," ELSE "") \o Members(obj, keys, k + 1)

Stringify(obj, keys) == "{" \o Members(obj, keys, 1) \o "}"

\* comparison?.enabled ? comparison.drug.trim().toUpperCase() : null
Comparator(cmp) ==
    IF IsDefined(cmp) /\ cmp[1].enabled
    THEN Quoted(Join(Normalised(cmp[1].drug)))
    ELSE "null"

canonicalParamsJSON(p, cmp) ==
    LET obj == [charMode |-> Quoted(p.charMode),
                comparator |-> Comparator(cmp),
                dateFrom |-> Quoted(Join(p.dateFrom)),
                dateTo |-> Quoted(Join(p.dateTo)),
                dedupMode |-> Quoted(p.dedupMode),
                drug |-> Quoted(Join(Normalised(p.drug))),
                serious |-> BooleanText(IsDefined(p.serious) /\ p.serious[1])]
    IN  Stringify(obj, SortedKeys)

\* the SHA-256 digest of a message, left uninterpreted: a value the message
\* determines
sha256(message) == [digestOf |-> message]

\* studyId is "FS-" and the first 8 characters of the digest
generateStudyId(p, cmp) ==
    LET hash == sha256(canonicalParamsJSON(p, cmp))
    IN  [studyId |-> [prefix |-> "FS-", first8Of |-> hash], fullHash |-> hash]

TOOL_VERSION == "FAERScope OpenCore v0.1.0"

\* Math.ceil(month / 3) of an integer or NaN
Quarter(month) == IF month.d = 0 THEN NaN ELSE R(-((-month.n) \div 3))

\* signals.filter(pred).length
RECURSIVE CountSignals(_, _)
CountSignals(signals, strongOnly) ==
    IF signals = <<>> THEN 0
    ELSE LET s == signals[Len(signals)]
         IN  CountSignals(SubSeq(signals, 1, Len(signals) - 1), strongOnly)
                 + (IF (~ strongOnly /\ s.isSignal) \/ s.isStrongSignal THEN 1 ELSE 0)

\* comparison?.enabled && comparison.drug ? comparison.drug.trim().toUpperCase() : null;
\* the empty string is falsy
ComparatorDrug(cmp) ==
    IF IsDefined(cmp) /\ cmp[1].enabled /\ cmp[1].drug # <<>>
    THEN Some(Join(Normalised(cmp[1].drug)))
    ELSE Undefined

\* generateManifest at the clock reading now; the texts of the disclaimer, of
\* the non-causation statement and of the limitations are constants of the
\* source, named here, and datasetNote is held as the year and the quarter
\* its template is filled with
generateManifest(input, now) ==
    LET id == generateStudyId(input.params, input.comparison)
        dateTo == input.params.dateTo
    IN  [studyId |-> id.studyId,
         fullHash |-> id.fullHash,
         drug |-> Join(Normalised(input.params.drug)),
         comparatorDrug |-> ComparatorDrug(input.comparison),
         dateRange |-> [from |-> Join(input.params.dateFrom), to |-> Join(input.params.dateTo)],
         seriousOnly |-> IsDefined(input.params.serious) /\ input.params.serious[1],
         dedupMode |-> input.params.dedupMode,
         charMode |-> input.params.charMode,
         dataSource |-> "FDA FAERS via openFDA API",
         endpointBase |-> IF IsDefined(input.endpointBase) THEN input.endpointBase[1]
                          ELSE "https://api.fda.gov",
         endpointVersion |-> "drug/event.json",
         datasetNote |-> [year |-> parseInt(StrSlice(dateTo, 0, 4)),
                          quarter |-> Quarter(parseInt(StrSlice(dateTo, 4, 6)))],
         totalReports |-> input.totalReports,
         reactionsAnalyzed |-> Len(input.signals),
         signalsDetected |-> CountSignals(input.signals, FALSE),
         strongSignalsDetected |-> CountSignals(input.signals, TRUE),
         fdrEnabled |-> input.fdrEnabled,
         generatedAt |-> now,
         toolVersion |-> TOOL_VERSION,
         license |-> "Apache-2.0",
         disclaimer |-> "DISCLAIMER",
         nonCausationStatement |-> "NON_CAUSATION",
         limitations |-> "LIMITATIONS"]

----------------------------------------------------------------------------
(* The batches the corrector is called with *)

PValues == {Rat(k, PGrid) : k \in 0..PGrid}

\* a score as the corrector sees it: it reads prrPValue and copies the rest
ScoreAt(i, p) ==
    [reaction |-> i, count |-> 10 * i, prrPValue |-> p, fdrPValue |-> Undefined]

Batches ==
    UNION {{[i \in 1..m |-> ScoreAt(i, ps[i])] : ps \in [1..m -> PValues]} : m \in 0..MaxBatch}

\* no call of the corrector / of the time-series functions in this run
IdleBH == scores = <<>> /\ corrected = <<>>

IdleTS == data = <<>> /\ window = 0 /\ ma = <<>>

NoTable == [a |-> 0, b |-> 0, c |-> 0, d |-> 0, n |-> 0]

IdleMetrics ==
    table = NoTable /\ score = Undefined /\ chi2Arg = BRFrac(0, 1) /\ pValue = Undefined

IdleAnalyzer ==
    /\ threshold = Undefined /\ zScores = Undefined /\ points = <<>>
    /\ annotated = Undefined /\ changepoints = Undefined /\ yearMap = Undefined /\ scan = Undefined
    /\ calls = <<>> /\ frames = <<>>

IdleManifest ==
    /\ params = Undefined /\ comparison = Undefined /\ canonical = Undefined
    /\ studyId = Undefined /\ manifest = Undefined

InitBH ==
    /\ pc = "applyBenjaminiHochberg"
    /\ scores \in Batches
    /\ corrected = <<>>
    /\ IdleTS
    /\ IdleMetrics
    /\ IdleAnalyzer
    /\ IdleManifest

CallApplyBH ==
    /\ pc = "applyBenjaminiHochberg"
    /\ LET r == applyBenjaminiHochberg(scores)
       IN  /\ scores' = r.input
           /\ corrected' = r.output
    /\ pc' = "done"
    /\ UNCHANGED <<data, window, ma, table, score, chi2Arg, pValue, analyzerVars, manifestVars>>

NextBH == CallApplyBH

SpecBH == InitBH /\ [][NextBH]_vars

----------------------------------------------------------------------------
(* The tables the calculators are called with *)

MakeTable(a, b, c, d) == [a |-> a, b |-> b, c |-> c, d |-> d, n |-> a + b + c + d]

\* the table of the documented example of computeDisproportionality
DocTable == MakeTable(150, 4850, 3000, 992000)

\* a pair reported twice for a drug with few reports, and a pair reported often
\* for a drug reported with nothing else
RareTable == MakeTable(2, 10, 10, 1000)

SoleTable == MakeTable(40, 0, 10, 1000)

\* a pair reported nine hundred times, for a reaction no other drug is reported with
LoneTable == MakeTable(900, 50, 0, 5000)

\* the tables a caller totals as the type documents
TotalledTables ==
    {MakeTable(a, b, c, d) : a \in 0..MaxCell, b \in 0..MaxCell, c \in 0..MaxCell, d \in 0..MaxCell}
        \cup {DocTable, RareTable, SoleTable, LoneTable}

\* the totals a table is supplied with: the sum of its cells, and a larger number
SuppliedTotals(t) == {t.n, 2 * t.n + 1}

Tables == UNION {{[t EXCEPT !.n = n] : n \in SuppliedTotals(t)} : t \in TotalledTables}

Chi2Args == {BRFrac(k, 2) : k \in (-2)..(2 * MaxChi2Arg)}

InitMetrics ==
    /\ \/ /\ pc = "computeDisproportionality"
          /\ table \in Tables
          /\ chi2Arg = BRFrac(0, 1)
       \/ /\ pc = "chi2PValue1df"
          /\ table = NoTable
          /\ chi2Arg \in Chi2Args
    /\ score = Undefined
    /\ pValue = Undefined
    /\ IdleBH
    /\ IdleTS
    /\ IdleAnalyzer
    /\ IdleManifest

CallComputeDisproportionality ==
    /\ pc = "computeDisproportionality"
    /\ score' = Some(computeDisproportionality("NAUSEA", table.a, table))
    /\ pc' = "done"
    /\ UNCHANGED <<table, chi2Arg, pValue, scores, corrected, data, window, ma, analyzerVars, manifestVars>>

CallChi2PValue1df ==
    /\ pc = "chi2PValue1df"
    /\ pValue' = Some(chi2PValue1df(chi2Arg))
    /\ pc' = "done"
    /\ UNCHANGED <<table, score, chi2Arg, scores, corrected, data, window, ma, analyzerVars, manifestVars>>

NextMetrics == CallComputeDisproportionality \/ CallChi2PValue1df

SpecMetrics == InitMetrics /\ [][NextMetrics]_vars

----------------------------------------------------------------------------
(* The series the time-series functions are called with *)

\* the series of the documented example movingAverage([1, 2, 3, 4, 5], 3)
DocSeries == <<1, 2, 3, 4, 5>>

Series ==
    UNION {[1..len -> 0..MaxValue] : len \in 0..MaxLen} \cup {DocSeries}

InitTS ==
    /\ pc = "movingAverage"
    /\ data \in Series
    /\ window \in 1..MaxWindow
    /\ ma = <<>>
    /\ IdleBH
    /\ IdleMetrics
    /\ IdleAnalyzer
    /\ IdleManifest

CallMovingAverage ==
    /\ pc = "movingAverage"
    /\ ma' = movingAverage(data, window)
    /\ pc' = "done"
    /\ UNCHANGED <<data, window, scores, corrected, table, score, chi2Arg, pValue, analyzerVars, manifestVars>>

NextTS == CallMovingAverage

SpecTS == InitTS /\ [][NextTS]_vars

----------------------------------------------------------------------------
(* rollingZScore called on its own *)

\* the series handed to the functions that take a square root
LevelSeries == UNION {[1..len -> 0..MaxLevel] : len \in 0..MaxLen}

InitZ ==
    /\ pc = "rollingZScore"
    /\ data \in LevelSeries
    /\ window \in 0..MaxWindow
    /\ ma = <<>>
    /\ IdleBH
    /\ IdleMetrics
    /\ IdleAnalyzer
    /\ IdleManifest

CallRollingZScore ==
    /\ pc = "rollingZScore"
    /\ zScores' = Some(rollingZScore(data, window))
    /\ pc' = "done"
    /\ UNCHANGED <<data, window, ma, scores, corrected, table, score, chi2Arg, pValue>>
    /\ UNCHANGED <<threshold, points, annotated, changepoints, yearMap, scan, calls, frames, manifestVars>>

NextZ == CallRollingZScore

SpecZ == InitZ /\ [][NextZ]_vars

----------------------------------------------------------------------------
(* The trend points detectSpikes is called with *)

TwoDigits(k) == <<DigitChars[((k \div 10) % 10) + 1], DigitChars[(k % 10) + 1]>>

\* the point of day k of January 2024: time "202401kk", label "2024-01-kk"
PointOfDay(k, count) ==
    [time |-> <<"2", "0", "2", "4", "0", "1">> \o TwoDigits(k),
     count |-> count,
     label |-> <<"2", "0", "2", "4", "-", "0", "1", "-">> \o TwoDigits(k)]

PointsOf(series) == [k \in 1..Len(series) |-> PointOfDay(k, series[k])]

\* the flat series of len points of count 100 with one point of count 10,000
\* at the 0-based index at
FlatCount == 100

OutlierCount == 10000

FlatSeries(len, at) == [k \in 1..len |-> IF k = at + 1 THEN OutlierCount ELSE FlatCount]

FlatSeriesSet ==
    UNION {{FlatSeries(len, at) : at \in 0..(len - 1)} : len \in 1..MaxFlatLen}
        \cup {FlatSeries(LongFlatLen, at) : at \in {0, LongFlatLen \div 2, LongFlatLen - 1}}

\* short series of counts 0 and 1
BinarySeries == UNION {[1..len -> {0, 1}] : len \in 0..MaxLen}

Thresholds == {Undefined, Some(R(0)), Some(R(1))}

InitSpikes ==
    /\ pc = "detectSpikes"
    /\ \/ /\ points \in {PointsOf(series) : series \in FlatSeriesSet}
          /\ window = DefaultWindow
          /\ threshold = Undefined
       \/ /\ points \in {PointsOf(series) : series \in BinarySeries}
          /\ window \in 1..MaxWindow
          /\ threshold \in Thresholds
    /\ annotated = Undefined
    /\ zScores = Undefined /\ changepoints = Undefined /\ yearMap = Undefined /\ scan = Undefined
    /\ calls = <<>> /\ frames = <<>>
    /\ data = <<>> /\ ma = <<>>
    /\ IdleBH
    /\ IdleMetrics
    /\ IdleManifest

CallDetectSpikes ==
    /\ pc = "detectSpikes"
    /\ LET r == DetectSpikesCall(points, window, OrDefault(threshold, DefaultThreshold))
       IN  /\ points' = r.input
           /\ annotated' = Some(r.output)
    /\ pc' = "done"
    /\ UNCHANGED <<data, window, ma, scores, corrected, table, score, chi2Arg, pValue>>
    /\ UNCHANGED <<threshold, zScores, changepoints, yearMap, scan, calls, frames, manifestVars>>

NextSpikes == CallDetectSpikes

SpecSpikes == InitSpikes /\ [][NextSpikes]_vars

----------------------------------------------------------------------------
(* The series detectChangepoints is called with *)

LowLevel == 10

HighLevel == 100

\* nLow points of value 10 followed by nHigh points of value 100
StepSeries(nLow, nHigh) ==
    [k \in 1..(nLow + nHigh) |-> IF k <= nLow THEN LowLevel ELSE HighLevel]

\* the step series of 30 and 30 points, and two of 9 and of 10 points
StepLen == 30

DocStep == StepSeries(StepLen, StepLen)

ChangepointSeries ==
    LevelSeries \cup {DocStep, StepSeries(4, 5), StepSeries(5, 5), StepSeries(9, 0)}

ChangepointThresholds ==
    {Undefined, Some(R(-1)), Some(R(0)), Some(R(1)), Some(NaN)}

InitCP ==
    /\ pc = "detectChangepoints"
    /\ data \in ChangepointSeries
    /\ threshold \in ChangepointThresholds
    /\ changepoints = Undefined
    /\ window = 0 /\ ma = <<>>
    /\ zScores = Undefined /\ points = <<>> /\ annotated = Undefined /\ yearMap = Undefined /\ scan = Undefined
    /\ calls = <<>> /\ frames = <<>>
    /\ IdleBH
    /\ IdleMetrics
    /\ IdleManifest

CallDetectChangepoints ==
    /\ pc = "detectChangepoints"
    /\ changepoints' = Some(detectChangepoints(data, threshold))
    /\ pc' = "done"
    /\ UNCHANGED <<data, window, ma, scores, corrected, table, score, chi2Arg, pValue>>
    /\ UNCHANGED <<threshold, zScores, points, annotated, yearMap, scan, calls, frames, manifestVars>>

NextCP == CallDetectChangepoints

SpecCP == InitCP /\ [][NextCP]_vars

----------------------------------------------------------------------------
(* detectChangepoints statement by statement: the guard and the statistics,  *)
(* then one pass of the loop at a time, then the return                      *)

ScanLen == 10

\* ScanLen points at the level base, those of the indices from..(to - 1) at top
Pulse(from, to, base, top) ==
    [k \in 1..ScanLen |-> IF from < k /\ k <= to THEN top ELSE base]

\* the flat series, the steps and the pulses of the shortest length scanned,
\* upwards and downwards; the documented step; a series too short
ScanSeries ==
    {Pulse(from, to, LowLevel, HighLevel) : from \in 0..ScanLen, to \in 0..ScanLen}
        \cup {Pulse(from, to, HighLevel, LowLevel) : from \in 0..ScanLen, to \in 0..ScanLen}
        \cup {DocStep, StepSeries(4, 5)}

ScanThresholds == ChangepointThresholds \cup {Some(R(HighLevel))}

InitScan ==
    /\ pc = "detectChangepoints.enter"
    /\ data \in ScanSeries
    /\ threshold \in ScanThresholds
    /\ changepoints = Undefined
    /\ scan = Undefined
    /\ calls = <<>> /\ frames = <<>>
    /\ window = 0 /\ ma = <<>>
    /\ zScores = Undefined /\ points = <<>> /\ annotated = Undefined /\ yearMap = Undefined
    /\ IdleBH
    /\ IdleMetrics
    /\ IdleManifest

\* lines 697-706: the early return, or mean, std, h and the three locals
EnterScan ==
    /\ pc = "detectChangepoints.enter"
    /\ IF TooShort(data)
       THEN /\ changepoints' = Some(<<>>)
            /\ scan' = scan
            /\ pc' = "done"
       ELSE LET mean == SliceMean(data)
                std == MathSqrtBR(SliceVariance(data, mean))
            IN  /\ scan' = Some([i |-> FirstIndex, mean |-> mean, std |-> std,
                                 h |-> OrDefault(threshold, FMul(std, R(4))),
                                 sPos |-> R(0), sNeg |-> R(0), changepoints |-> <<>>])
                /\ changepoints' = changepoints
                /\ pc' = "detectChangepoints.loop"
    /\ UNCHANGED <<data, window, ma, scores, corrected, table, score, chi2Arg, pValue>>
    /\ UNCHANGED <<threshold, zScores, points, annotated, yearMap, calls, frames, manifestVars>>

\* one pass of the loop body, and i++
ScanStep ==
    /\ pc = "detectChangepoints.loop"
    /\ scan[1].i < Len(data)
    /\ LET s == scan[1]
           t == CusumStep(data, s, s.i, s)
       IN  scan' = Some([s EXCEPT !.i = @ + 1, !.sPos = t.sPos, !.sNeg = t.sNeg,
                                  !.changepoints = t.changepoints])
    /\ pc' = pc
    /\ UNCHANGED <<data, window, ma, scores, corrected, table, score, chi2Arg, pValue>>
    /\ UNCHANGED <<threshold, zScores, points, annotated, changepoints, yearMap, calls, frames, manifestVars>>

\* the loop is left and changepoints is returned
ScanReturn ==
    /\ pc = "detectChangepoints.loop"
    /\ scan[1].i >= Len(data)
    /\ changepoints' = Some(scan[1].changepoints)
    /\ scan' = Undefined
    /\ pc' = "done"
    /\ UNCHANGED <<data, window, ma, scores, corrected, table, score, chi2Arg, pValue>>
    /\ UNCHANGED <<threshold, zScores, points, annotated, yearMap, calls, frames, manifestVars>>

NextScan == EnterScan \/ ScanStep \/ ScanReturn

SpecScan == InitScan /\ [][NextScan]_vars

----------------------------------------------------------------------------
(* Several invocations at once, as in Web Workers or in interleaved tasks:   *)
(* each runs its function statement by statement on locals of its own, and   *)
(* the passes of the loops of different invocations interleave in any order  *)

ConcurrentCalls == 2

\* a batch of three scores with the raw p-values ps
BatchOf(ps) == [i \in 1..3 |-> ScoreAt(i, ps[i])]

\* the functions invoked and their arguments: two batches, two series with
\* their thresholds, two tables
Jobs ==
    <<[fn |-> "applyBenjaminiHochberg",
       arg |-> BatchOf(<<Rat(1, 100), Rat(1, 50), Rat(1, 2)>>)],
      [fn |-> "applyBenjaminiHochberg",
       arg |-> BatchOf(<<Rat(1, 2), Rat(1, 100), Rat(1, 100)>>)],
      [fn |-> "detectChangepoints",
       arg |-> [data |-> Pulse(3, 8, LowLevel, HighLevel), threshold |-> Some(R(HighLevel))]],
      [fn |-> "detectChangepoints",
       arg |-> [data |-> Pulse(0, 5, HighLevel, LowLevel), threshold |-> Undefined]],
      [fn |-> "computeDisproportionality", arg |-> RareTable],
      [fn |-> "computeDisproportionality", arg |-> SoleTable]>>

\* the locals of the two functions with a loop, before they are assigned
NoLocals ==
    [i |-> 0, mean |-> R(0), std |-> R(0), h |-> R(0), sPos |-> R(0), sNeg |-> R(0),
     changepoints |-> <<>>,
     m |-> 0, indexed |-> <<>>, rank |-> 0, cumMin |-> R(1), adjusted |-> <<>>]

\* FrameOf with the locals kept at module level, one set for all invocations
FrameOf_ModuleLevel(c) == 1

\* the locals of invocation c are its own: let and const inside the function body
FrameOf(c) == c

InitWorkers ==
    /\ pc = "workers"
    /\ \E job \in [1..ConcurrentCalls -> 1..Len(Jobs)] :
           calls = [c \in 1..ConcurrentCalls |->
                       [fn |-> Jobs[job[c]].fn, arg |-> Jobs[job[c]].arg, at |-> "start",
                        result |-> Undefined, overlapped |-> FALSE]]
    /\ frames = [c \in 1..ConcurrentCalls |-> NoLocals]
    /\ threshold = Undefined /\ zScores = Undefined /\ points = <<>>
    /\ annotated = Undefined /\ changepoints = Undefined /\ yearMap = Undefined
    /\ scan = Undefined
    /\ IdleTS
    /\ IdleBH
    /\ IdleMetrics
    /\ IdleManifest

WorkerFrame == <<pc, data, window, ma, scores, corrected, table, score, chi2Arg, pValue,
                 threshold, zScores, points, annotated, changepoints, yearMap, scan,
                 manifestVars>>

\* invocation c runs up to its loop: the locals are assigned; a function
\* without a loop, or one that returns early, returns here
EnterCall(c) ==
    /\ calls[c].at = "start"
    /\ LET fn == calls[c].fn
           arg == calls[c].arg
           f == FrameOf(c)
       IN  IF fn = "computeDisproportionality"
           THEN /\ calls' = [calls EXCEPT ![c].at = "returned",
                                ![c].result = Some(computeDisproportionality("NAUSEA", arg.a, arg))]
                /\ frames' = frames
           ELSE IF fn = "applyBenjaminiHochberg"
           THEN IF Len(arg) = 0
                THEN /\ calls' = [calls EXCEPT ![c].at = "returned", ![c].result = Some(arg)]
                     /\ frames' = frames
                ELSE /\ calls' = [calls EXCEPT ![c].at = "loop"]
                     /\ frames' = [frames EXCEPT ![f] = [@ EXCEPT
                            !.m = Len(arg),
                            !.indexed = SortByP([i \in 1..Len(arg) |->
                                                    [idx |-> i, p |-> arg[i].prrPValue]]),
                            !.adjusted = [i \in 1..Len(arg) |-> NaN],
                            !.cumMin = R(1),
                            !.rank = Len(arg)]]
           ELSE IF TooShort(arg.data)
                THEN /\ calls' = [calls EXCEPT ![c].at = "returned", ![c].result = Some(<<>>)]
                     /\ frames' = frames
                ELSE LET mean == SliceMean(arg.data)
                         std == MathSqrtBR(SliceVariance(arg.data, mean))
                     IN  /\ calls' = [calls EXCEPT ![c].at = "loop"]
                         /\ frames' = [frames EXCEPT ![f] = [@ EXCEPT
                                !.mean = mean, !.std = std,
                                !.h = OrDefault(arg.threshold, FMul(std, R(4))),
                                !.sPos = R(0), !.sNeg = R(0), !.changepoints = <<>>,
                                !.i = FirstIndex]]
    /\ UNCHANGED WorkerFrame

\* the loop of invocation c has a pass to make, on the locals as they are
HasPass(c) ==
    LET l == frames[FrameOf(c)]
    IN  IF calls[c].fn = "applyBenjaminiHochberg" THEN l.rank >= 1
        ELSE l.i < Len(calls[c].arg.data)

\* one pass of the loop of invocation c
PassCall(c) ==
    /\ calls[c].at = "loop"
    /\ HasPass(c)
    /\ LET f == FrameOf(c)
           l == frames[f]
       IN  IF calls[c].fn = "applyBenjaminiHochberg"
           THEN frames' = [frames EXCEPT ![f] = WalkStep(l)]
           ELSE LET t == CusumStep(calls[c].arg.data, l, l.i, l)
                IN  frames' = [frames EXCEPT ![f] =
                        [l EXCEPT !.i = @ + 1, !.sPos = t.sPos, !.sNeg = t.sNeg,
                                  !.changepoints = t.changepoints]]
    /\ calls' = [calls EXCEPT ![c].overlapped =
                     @ \/ \E o \in 1..ConcurrentCalls : o # c /\ calls[o].at = "loop"]
    /\ UNCHANGED WorkerFrame

\* the loop of invocation c is over and it returns
ReturnCall(c) ==
    /\ calls[c].at = "loop"
    /\ ~ HasPass(c)
    /\ LET l == frames[FrameOf(c)]
       IN  calls' = [calls EXCEPT ![c].at = "returned",
                        ![c].result = IF calls[c].fn = "applyBenjaminiHochberg"
                                      THEN Some(WithFdr(calls[c].arg, l.adjusted))
                                      ELSE Some(l.changepoints)]
    /\ frames' = frames
    /\ UNCHANGED WorkerFrame

NextWorkers ==
    \E c \in 1..ConcurrentCalls : EnterCall(c) \/ PassCall(c) \/ ReturnCall(c)

SpecWorkers == InitWorkers /\ [][NextWorkers]_vars

----------------------------------------------------------------------------
(* The trend points yearOverYear is called with *)

\* the key "YYYYMMDD" of a date
DateKey(year, month, day) ==
    TwoDigits(year \div 100) \o TwoDigits(year % 100) \o TwoDigits(month) \o TwoDigits(day)

\* the keys of the documented example, of another month and of another year,
\* a key of December, and a key cut after the year
DateKeys ==
    {DateKey(2024, 1, 15), DateKey(2024, 1, 20), DateKey(2024, 2, 10),
     DateKey(2023, 1, 5), DateKey(2023, 12, 31), <<"2", "0", "2", "4">>}

TrendPoints == [time : DateKeys, count : {1, 5}, label : {<<>>}]

InitYoY ==
    /\ pc = "yearOverYear"
    /\ points \in UNION {[1..len -> TrendPoints] : len \in 0..MaxPoints}
    /\ yearMap = Undefined /\ scan = Undefined
    /\ calls = <<>> /\ frames = <<>>
    /\ threshold = Undefined /\ zScores = Undefined
    /\ annotated = Undefined /\ changepoints = Undefined
    /\ IdleTS
    /\ IdleBH
    /\ IdleMetrics
    /\ IdleManifest

CallYearOverYear ==
    /\ pc = "yearOverYear"
    /\ LET r == YearOverYearCall(points)
       IN  /\ points' = r.input
           /\ yearMap' = Some(r.output)
    /\ pc' = "done"
    /\ UNCHANGED <<data, window, ma, scores, corrected, table, score, chi2Arg, pValue>>
    /\ UNCHANGED <<threshold, zScores, annotated, changepoints, scan, calls, frames, manifestVars>>

NextYoY == CallYearOverYear

SpecYoY == InitYoY /\ [][NextYoY]_vars

----------------------------------------------------------------------------
(* The parameters an analysis is identified from *)

DrugChars == {"a", "A", " "}

DrugNames == UNION {[1..len -> DrugChars] : len \in 0..MaxDrugLen}

ApiKeys == {Undefined, Some("key-1")}

SeriousFlags == {Undefined, Some(FALSE), Some(TRUE)}

ParamSets ==
    [drug : DrugNames, dateFrom : {DateKey(2020, 1, 1)}, dateTo : {DateKey(2023, 12, 31)},
     serious : SeriousFlags, apiKey : ApiKeys,
     dedupMode : {"raw", "filtered"}, charMode : {"suspect"}]

ComparatorNames == {<<>>, <<" ">>, <<"a">>, <<" ", "A">>, <<"b">>}

Comparisons == {Undefined} \cup {Some(c) : c \in [enabled : BOOLEAN, drug : ComparatorNames]}

InitManifest ==
    /\ pc = "canonicalParamsJSON"
    /\ params \in {Some(p) : p \in ParamSets}
    /\ comparison \in Comparisons
    /\ canonical = Undefined
    /\ studyId = Undefined
    /\ manifest = Undefined
    /\ IdleTS
    /\ IdleBH
    /\ IdleMetrics
    /\ IdleAnalyzer

CallCanonicalParamsJSON ==
    /\ pc = "canonicalParamsJSON"
    /\ canonical' = Some(canonicalParamsJSON(params[1], comparison))
    /\ pc' = "generateStudyId"
    /\ UNCHANGED <<params, comparison, studyId, manifest, analyzerVars>>
    /\ UNCHANGED <<data, window, ma, scores, corrected, table, score, chi2Arg, pValue>>

CallGenerateStudyId ==
    /\ pc = "generateStudyId"
    /\ studyId' = Some(generateStudyId(params[1], comparison))
    /\ pc' = "generateManifest"
    /\ UNCHANGED <<params, comparison, canonical, manifest, analyzerVars>>
    /\ UNCHANGED <<data, window, ma, scores, corrected, table, score, chi2Arg, pValue>>

\* the readings of the clock: new Date().toISOString()
Clock == {"2026-01-01T00:00:00.000Z", "2026-01-01T00:00:00.001Z"}

\* generateManifest on the corrected batch if there is one, on the batch
\* assembled otherwise
CallGenerateManifest ==
    /\ pc = "generateManifest"
    /\ \E now \in Clock, endpoint \in {Undefined, Some("https://api.example.org")} :
           LET fdrEnabled == corrected # <<>>
               input == [params |-> params[1], comparison |-> comparison,
                         signals |-> IF fdrEnabled THEN corrected ELSE scores,
                         totalReports |-> 5000, fdrEnabled |-> fdrEnabled,
                         endpointBase |-> endpoint]
           IN  manifest' = Some(generateManifest(input, now))
    /\ pc' = "done"
    /\ UNCHANGED <<params, comparison, canonical, studyId, analyzerVars>>
    /\ UNCHANGED <<data, window, ma, scores, corrected, table, score, chi2Arg, pValue>>

NextManifest == CallCanonicalParamsJSON \/ CallGenerateStudyId \/ CallGenerateManifest

SpecManifest == InitManifest /\ [][NextManifest]_vars

----------------------------------------------------------------------------
(* An analysis session: the scores of a drug's reactions are assembled one   *)
(* by one, the batch is corrected or not, and the manifest is generated      *)

SessionTables == {NoTable, RareTable, SoleTable, MakeTable(1, 2, 3, 4)}

SessionParams ==
    [drug |-> <<"a">>, dateFrom |-> DateKey(2020, 1, 1), dateTo |-> DateKey(2023, 12, 31),
     serious |-> Some(FALSE), apiKey |-> Undefined, dedupMode |-> "filtered",
     charMode |-> "suspect"]

InitSession ==
    /\ pc \in {"computeDisproportionality", "applyBenjaminiHochberg"}
    /\ table \in SessionTables
    /\ score = Undefined
    /\ scores = <<>>
    /\ corrected = <<>>
    /\ chi2Arg = BRFrac(0, 1)
    /\ pValue = Undefined
    /\ params = Some(SessionParams)
    /\ comparison = Undefined
    /\ canonical = Undefined
    /\ studyId = Undefined
    /\ manifest = Undefined
    /\ IdleTS
    /\ IdleAnalyzer

\* computeDisproportionality on the table of the next reaction; the caller
\* puts the score into its batch and goes on to the next table, to the
\* correction or to the manifest
AssembleScore ==
    /\ pc = "computeDisproportionality"
    /\ Len(scores) < MaxBatch
    /\ score' = Some(computeDisproportionality("NAUSEA", table.a, table))
    /\ scores' = Append(scores, score'[1])
    /\ \/ Len(scores') < MaxBatch /\ table' \in SessionTables /\ pc' = pc
       \/ table' = table /\ pc' \in {"applyBenjaminiHochberg", "generateManifest"}
    /\ UNCHANGED <<corrected, chi2Arg, pValue, data, window, ma, analyzerVars, manifestVars>>

\* applyBenjaminiHochberg on the batch assembled
CorrectBatch ==
    /\ pc = "applyBenjaminiHochberg"
    /\ LET r == applyBenjaminiHochberg(scores)
       IN  /\ scores' = r.input
           /\ corrected' = r.output
    /\ pc' = "generateManifest"
    /\ UNCHANGED <<table, score, chi2Arg, pValue, data, window, ma, analyzerVars, manifestVars>>

NextSession == AssembleScore \/ CorrectBatch \/ CallGenerateManifest

SpecSession == InitSession /\ [][NextSession]_vars

----------------------------------------------------------------------------
(* The library as a whole: one call of one of its functions *)

Init == InitBH \/ InitTS \/ InitMetrics \/ InitZ \/ InitSpikes \/ InitCP \/ InitYoY \/ InitManifest \/ InitSession \/ InitScan \/ InitWorkers

Next == NextBH \/ NextTS \/ NextMetrics \/ NextZ \/ NextSpikes \/ NextCP \/ NextYoY \/ NextManifest \/ NextSession \/ NextScan \/ NextWorkers

Spec == Init /\ [][Next]_vars

----------------------------------------------------------------------------
(* Properties of applyBenjaminiHochberg *)

Fdr(s) == s.fdrPValue[1]

\* C1: in a corrected non-empty batch, a score whose raw p-value is not larger
\* than another's has an fdrPValue that is not larger either
C1_FdrMonotone ==
    (pc = "done" /\ Len(scores) > 0) =>
        \A i, j \in 1..Len(corrected) :
            RLe(corrected[i].prrPValue, corrected[j].prrPValue) =>
                /\ IsDefined(corrected[i].fdrPValue)
                /\ IsDefined(corrected[j].fdrPValue)
                /\ RLe(Fdr(corrected[i]), Fdr(corrected[j]))

\* a corrected batch with a tie in the raw p-values, a strict increase of the
\* corrected ones, and an item the running minimum pulled below its raw value
C1_Witness ==
    /\ pc = "done"
    /\ Len(corrected) = MaxBatch
    /\ \E i, j \in 1..Len(corrected) :
           i # j /\ REq(corrected[i].prrPValue, corrected[j].prrPValue)
    /\ \E i, j \in 1..Len(corrected) :
           /\ RLt(corrected[i].prrPValue, corrected[j].prrPValue)
           /\ RLt(Fdr(corrected[i]), Fdr(corrected[j]))
    /\ \E i \in 1..Len(corrected) :
           RLt(Fdr(corrected[i]), RMul(corrected[i].prrPValue, R(Len(corrected))))

\* C2: a batch of one score comes back as one score whose fdrPValue is its
\* raw p-value
C2_SingleElement ==
    (pc = "done" /\ Len(scores) = 1) =>
        /\ Len(corrected) = 1
        /\ corrected[1].fdrPValue = Some(scores[1].prrPValue)

C2_Witness ==
    /\ pc = "done"
    /\ Len(scores) = 1
    /\ RLt(R(0), scores[1].prrPValue)
    /\ RLt(scores[1].prrPValue, R(1))
    /\ IsDefined(corrected[1].fdrPValue)

\* C3: the call leaves the caller's batch as it was and returns a collection
\* of the same length whose position i is the input's position i with only
\* fdrPValue changed; an empty batch gives an empty result
C3_FrameOfCorrection ==
    [][(pc = "applyBenjaminiHochberg" /\ pc' = "done") =>
          /\ scores' = scores
          /\ Len(corrected') = Len(scores)
          /\ \A i \in 1..Len(scores) :
                 /\ corrected'[i].reaction = scores[i].reaction
                 /\ corrected'[i].count = scores[i].count
                 /\ corrected'[i].prrPValue = scores[i].prrPValue
                 /\ DOMAIN corrected'[i] = DOMAIN scores[i]
          /\ (Len(scores) = 0 => corrected' = <<>>)]_vars

\* a corrected batch whose input order is not the order of the p-values
C3_Witness ==
    /\ pc = "done"
    /\ Len(corrected) = MaxBatch
    /\ RLt(corrected[2].prrPValue, corrected[1].prrPValue)
    /\ \A i \in 1..Len(corrected) :
           IsDefined(corrected[i].fdrPValue) /\ scores[i].fdrPValue = Undefined

----------------------------------------------------------------------------
(* Properties of the calculators and of computeDisproportionality *)

Sc == score[1]

Scored == pc = "done" /\ IsDefined(score)

\* the table with cell a raised to a2
RaiseA(t, a2) == [t EXCEPT !.a = a2, !.n = a2 + t.b + t.c + t.d]

\* the values cell a is raised to
RaisedFrom(a) == (a + 1)..(MaxCell + 2)

\* C4 as stated: with a+b > 0, c+d > 0 and c > 0, raising a (b, c, d fixed)
\* gives a strictly larger PRR
C4_StrictlyIncreasingInA ==
    (Scored /\ table.a + table.b > 0 /\ table.c + table.d > 0 /\ table.c > 0) =>
        \A a2 \in RaisedFrom(table.a) : RLt(Sc.prr, computePRR(RaiseA(table, a2)))

\* C4 as amended: with c > 0 and b > 0, raising a gives a strictly larger PRR;
\* with c > 0, b = 0 and a > 0 the PRR is (c+d)/c whatever a is
C4_IncreasingInAForPositiveB ==
    (Scored /\ table.a + table.b > 0 /\ table.c + table.d > 0 /\ table.c > 0) =>
        \A a2 \in RaisedFrom(table.a) :
            /\ table.b > 0 => RLt(Sc.prr, computePRR(RaiseA(table, a2)))
            /\ table.b = 0 =>
                  /\ REq(Sc.prr, computePRR(RaiseA(table, a2)))
                  /\ REq(Sc.prr, Rat(table.c + table.d, table.c))

\* a scored table with b > 0 and c > 0 whose cell a can be raised, and whose
\* PRR is neither 0 nor at its limit
C4_Witness ==
    /\ Scored
    /\ table.a > 0 /\ table.b > 0 /\ table.c > 0 /\ table.d > 0
    /\ RaisedFrom(table.a) # {}
    /\ RLt(R(1), Sc.prr)

C6_DocTableFlags ==
    (Scored /\ table = DocTable) => (Sc.isSignal = TRUE /\ Sc.isStrongSignal = TRUE)

C6_Witness ==
    /\ Scored
    /\ table = DocTable
    /\ RLt(R(1), Sc.rorLower95)
    /\ RLt(R(0), Sc.ic025)
    /\ BRGeInt(Sc.prrChi2, 4)

\* C7: every metric of every score, and every p-value chi2PValue1df returns, is
\* a finite number: no division by zero, no log of a number <= 0, no sqrt of a
\* negative number was made on the way
C7_MetricsFinite ==
    /\ Scored =>
          /\ IsFinite(Sc.prr)
          /\ BRIsFinite(Sc.prrChi2)
          /\ IsFinite(Sc.prrPValue)
          /\ IsFinite(Sc.ror)
          /\ IsFinite(Sc.rorLower95)
          /\ IsFinite(Sc.rorUpper95)
          /\ IsFinite(Sc.ic)
          /\ IsFinite(Sc.ic025)
          /\ IsFinite(Sc.ic975)
    /\ (pc = "done" /\ IsDefined(pValue)) => IsFinite(pValue[1])

\* a scored table with a zero cell and a zero margin next to non-zero cells
C7_Witness ==
    /\ Scored
    /\ table.c = 0 /\ table.d > 0 /\ table.a > 0 /\ table.b = 0
    /\ IsFinite(Sc.ic975)

AnyCellZero(t) == t.a = 0 \/ t.b = 0 \/ t.c = 0 \/ t.d = 0

AnyMarginZero(t) == t.a + t.b = 0 \/ t.c + t.d = 0 \/ t.a + t.c = 0 \/ t.b + t.d = 0

\* C8: each calculator returns its sentinel in its listed degenerate cases
C8_Sentinels ==
    /\ Scored =>
          /\ (table.a + table.b = 0 \/ table.c + table.d = 0 \/ table.c = 0) => Sc.prr = R(0)
          /\ AnyMarginZero(table) => Sc.prrChi2 = BRFrac(0, 1)
          /\ BRLeZero(Sc.prrChi2) => Sc.prrPValue = R(1)
          /\ (table.b = 0 \/ table.c = 0) => Sc.ror = R(0)
          /\ AnyCellZero(table) => (Sc.rorLower95 = R(0) /\ Sc.rorUpper95 = R(0))
          /\ (table.a = 0 \/ table.a + table.b = 0 \/ table.a + table.c = 0) => Sc.ic = R(0)
          /\ table.a <= 0 => (Sc.ic025 = R(0) /\ Sc.ic975 = R(0))
    /\ (pc = "done" /\ IsDefined(pValue) /\ BRLeZero(chi2Arg)) => pValue = Some(R(1))

\* a scored table whose only zero cell is d
C8_Witness ==
    /\ Scored
    /\ table.d = 0 /\ table.a > 0 /\ table.b > 0 /\ table.c > 0
    /\ Sc.rorUpper95 = R(0)
    /\ ~ REq(Sc.prr, R(0))

\* C9: isSignal is prr >= 2 and chi-squared >= 4 and a >= 3; isStrongSignal is
\* rorLower95 > 1 and ic025 > 0, whatever isSignal is
C9_Classification ==
    Scored =>
        /\ Sc.isSignal = (RLe(R(2), Sc.prr) /\ BRGeInt(Sc.prrChi2, 4) /\ table.a >= 3)
        /\ Sc.isStrongSignal = (RLt(R(1), Sc.rorLower95) /\ RLt(R(0), Sc.ic025))

\* a score that is a strong signal and not a signal: only the count a >= 3 fails
C9_Witness ==
    /\ Scored
    /\ Sc.isStrongSignal /\ ~ Sc.isSignal
    /\ RLe(R(2), Sc.prr) /\ BRGeInt(Sc.prrChi2, 4)

----------------------------------------------------------------------------
(* Properties of the time-series functions *)

RECURSIVE SeqSum(_)
SeqSum(q) == IF q = <<>> THEN 0 ELSE q[1] + SeqSum(Tail(q))

\* the arithmetic mean of a non-empty sequence of integers
MeanOf(q) == Rat(SeqSum(q), Len(q))

\* C10: movingAverage returns an array as long as data; its 0-based entry i is
\* undefined exactly when i < w - 1 and is otherwise the mean of
\* data[i-w+1..i]; movingAverage([1,2,3,4,5], 3) = [undefined, undefined, 2, 3, 4]
C10_MovingAverage ==
    (pc = "done" /\ window >= 1) =>
        /\ Len(ma) = Len(data)
        /\ \A i \in 0..(Len(data) - 1) :
              /\ (ma[i + 1] = Undefined) <=> (i < window - 1)
              /\ (i >= window - 1) =>
                    ma[i + 1] = Some(MeanOf(SubSeq(data, i - window + 2, i + 1)))
        /\ (data = DocSeries /\ window = 3) =>
              ma = <<Undefined, Undefined, Some(R(2)), Some(R(3)), Some(R(4))>>

\* the documented call has been made and gave defined and undefined entries
C10_Witness ==
    /\ pc = "done"
    /\ data = DocSeries
    /\ window = 3
    /\ ma[2] = Undefined
    /\ ma[5] = Some(R(4))

\* the 0-based bounds of the centered window of index i, and the window itself
WinLo(i, w) == IF i - w \div 2 > 0 THEN i - w \div 2 ELSE 0

WinHi(len, i, w) == IF i + w \div 2 < len - 1 THEN i + w \div 2 ELSE len - 1

WindowOf(arr, i, w) == SubSeq(arr, WinLo(i, w) + 1, WinHi(Len(arr), i, w) + 1)

\* the population variance of a non-empty sequence of integers: the mean of
\* the squares less the square of the mean
RECURSIVE SumOfSquares(_)
SumOfSquares(q) == IF q = <<>> THEN 0 ELSE q[1] * q[1] + SumOfSquares(Tail(q))

PopVariance(q) == RSub(Rat(SumOfSquares(q), Len(q)), RMul(MeanOf(q), MeanOf(q)))

\* z is sqrt(sq) with the sign given, to the second decimal
IsRootOf(z, sign, sq) ==
    LET c == (Abs(z.n) * 100) \div z.d
    IN  /\ Sgn(z.n) = sign
        /\ (c > 0 => RLe(Rat((c - 1) * (c - 1), 10000), sq))
        /\ RLe(sq, Rat((c + 2) * (c + 2), 10000))

\* C11: rollingZScore(data, w) at index i looks at data[max(0, i - floor(w/2)) ..
\* min(len-1, i + floor(w/2))]; its entry is undefined if that window has fewer
\* than 3 points, 0 if it has at least 3 and they are all equal (standard
\* deviation 0), and otherwise (value - mean) / population standard deviation
C11_RollingZScore ==
    (pc = "done" /\ IsDefined(zScores)) =>
        /\ Len(zScores[1]) = Len(data)
        /\ \A i \in 0..(Len(data) - 1) :
              LET win == WindowOf(data, i, window)
                  z == zScores[1][i + 1]
                  dev == RSub(R(data[i + 1]), MeanOf(win))
              IN  IF Len(win) < 3 THEN z = Undefined
                  ELSE IF PopVariance(win) = R(0) THEN z = Some(R(0))
                  ELSE /\ IsDefined(z)
                       /\ IsRootOf(z[1], Sgn(dev.n), RDiv(RMul(dev, dev), PopVariance(win)))

\* a call that gave an undefined entry (window of 2 points), a 0 (three equal
\* points) and a negative z-score
C11_Witness ==
    /\ pc = "done"
    /\ data = <<1, 1, 1, 2>>
    /\ window = 2
    /\ IsDefined(zScores)
    /\ zScores[1][1] = Undefined
    /\ zScores[1][2] = Some(R(0))
    /\ RLt(zScores[1][3][1], R(0))

----------------------------------------------------------------------------
(* Properties of detectSpikes *)

Ann == annotated[1]

Spiked == pc = "done" /\ IsDefined(annotated)

\* the call detectSpikes(flat series with one outlier), window and threshold
\* at their defaults
FlatCall ==
    /\ Counts(points) \in FlatSeriesSet
    /\ window = DefaultWindow
    /\ threshold = Undefined

\* the 0-based index of the outlier
OutlierAt == CHOOSE i \in 0..(Len(points) - 1) : points[i + 1].count = OutlierCount

IntMin(x, y) == IF x < y THEN x ELSE y

IntMax(x, y) == IF x < y THEN y ELSE x

\* the number of points in the z-score window detectSpikes uses at index i
PointsAround(i) ==
    Len(WindowOf(Counts(points), i, IntMin(2 * window, Len(points))))

\* C12 as stated: whatever the length of the flat series and the position of
\* the outlier, isSpike is true at the outlier and false everywhere else
C12_OutlierFlaggedAtAnyLength ==
    (Spiked /\ FlatCall) =>
        \A i \in 0..(Len(points) - 1) : Ann[i + 1].isSpike = (i = OutlierAt)

\* C12 as amended: isSpike is false at every index other than the outlier's,
\* and at the outlier it is true exactly when the window around it holds at
\* least 6 points (its z-score is the root of the points in the window less
\* one); every flat series of 10 points or more has the outlier flagged
C12_OutlierFlaggedInWindowOfSix ==
    (Spiked /\ FlatCall) =>
        /\ \A i \in 0..(Len(points) - 1) :
               Ann[i + 1].isSpike = (i = OutlierAt /\ PointsAround(i) >= 6)
        /\ Len(points) >= 10 => Ann[OutlierAt + 1].isSpike

\* a flat series of 10 points or more whose outlier, at an end of the series,
\* is the one point flagged
C12_Witness ==
    /\ Spiked
    /\ FlatCall
    /\ Len(points) >= 10
    /\ OutlierAt = 0
    /\ Ann[1].isSpike
    /\ \A i \in 1..(Len(points) - 1) : ~ Ann[i + 1].isSpike

\* C20: point i comes back with its own fields, ma = movingAverage(counts,
\* min(window, max(3, floor(len/4))))[i], zScore = rollingZScore(counts,
\* min(2 * window, len))[i], and a boolean isSpike that is true exactly when
\* the zScore is defined and its absolute value is above the threshold
C20_SpikeAnnotation ==
    Spiked =>
        LET counts == Counts(points)
            len == Len(points)
            thr == IF threshold = Undefined THEN R(2) ELSE threshold[1]
            mas == movingAverage(counts, IntMin(window, IntMax(3, len \div 4)))
            zs == rollingZScore(counts, IntMin(2 * window, len))
        IN  /\ Len(Ann) = len
            /\ \A k \in 1..len :
                   /\ Ann[k].time = points[k].time
                   /\ Ann[k].count = points[k].count
                   /\ Ann[k].label = points[k].label
                   /\ Ann[k].ma = mas[k]
                   /\ Ann[k].zScore = zs[k]
                   /\ Ann[k].isSpike \in BOOLEAN
                   /\ Ann[k].isSpike <=>
                          /\ zs[k] # Undefined
                          /\ RLt(thr, zs[k][1]) \/ RLt(zs[k][1], RSub(R(0), thr))
                   /\ zs[k] = Undefined => Ann[k].isSpike = FALSE

\* a call with a threshold of its own that gave a point without z-score, a
\* point with a z-score within the threshold and a spike
C20_Witness ==
    /\ Spiked
    /\ threshold = Some(R(1))
    /\ \E k \in 1..Len(Ann) : Ann[k].zScore = Undefined /\ ~ Ann[k].isSpike
    /\ \E k \in 1..Len(Ann) : IsDefined(Ann[k].zScore) /\ ~ Ann[k].isSpike
    /\ \E k \in 1..Len(Ann) : Ann[k].isSpike /\ IsDefined(Ann[k].ma)

----------------------------------------------------------------------------
(* Properties of detectChangepoints *)

Found == changepoints[1]

Detected == pc = "done" /\ IsDefined(changepoints)

\* the indices within 5 of the step, where the level changes
TransitionRegion == (StepLen - 5)..(StepLen + 5)

\* C13: on the step series of 30 points of 10 and 30 points of 100, with the
\* default threshold, the returned list is not empty and has an index in the
\* transition region: it is [9, 18, 27, 38, 47, 56], and 27 is 3 before the step
C13_StepDetected ==
    (Detected /\ data = DocStep /\ threshold = Undefined) =>
        /\ Found # <<>>
        /\ \E k \in 1..Len(Found) : Found[k] \in TransitionRegion
        /\ Found = <<9, 18, 27, 38, 47, 56>>

\* the call on the step series has returned, with indices on both sides of the step
C13_Witness ==
    /\ Detected
    /\ data = DocStep
    /\ threshold = Undefined
    /\ \E k \in 1..Len(Found) : Found[k] < StepLen
    /\ \E k \in 1..Len(Found) : Found[k] > StepLen

\* C14: the call on a series of fewer than 10 points returns the empty list,
\* whatever its values and the threshold (none, negative, 0, positive, NaN)
C14_ShortSeriesEmpty ==
    (Detected /\ Len(data) < 10) => changepoints = Some(<<>>)

\* a call on 9 points with a level shift and a threshold every sum exceeds
C14_Witness ==
    /\ Detected
    /\ data = StepSeries(4, 5)
    /\ threshold = Some(R(-1))
    /\ Found = <<>>

----------------------------------------------------------------------------
(* Properties of yearOverYear *)

YearMap == yearMap[1]

Regrouped == pc = "done" /\ IsDefined(yearMap)

\* the first 4 characters of the key of point k, and the month its characters
\* 5-6 spell: 0 if they spell none
YearKey(k) == SubSeq(points[k].time, 1, 4)

MonthKey(k) ==
    IF Len(points[k].time) < 6 THEN 0
    ELSE 10 * DigitValue(points[k].time[5]) + DigitValue(points[k].time[6])

\* the counts of the points of year y and month m, added up
RECURSIVE CountOf(_, _, _)
CountOf(y, m, k) ==
    IF k = 0 THEN 0
    ELSE CountOf(y, m, k - 1)
             + (IF YearKey(k) = y /\ MonthKey(k) = m THEN points[k].count ELSE 0)

\* C15: the keys of the map are the years of the points, each once; under a
\* year there is one {month, count} entry for each month 1..12 that has a
\* point in that year, its count the sum of the counts of those points, and
\* no entry for a month without a point; "20240115" and "20240120" with
\* count 5 each give {month: 1, count: 10} under "2024" and nothing else
C15_YearOverYear ==
    Regrouped =>
        /\ \A k \in 1..Len(points) : \E i \in 1..Len(YearMap) : YearMap[i].year = YearKey(k)
        /\ \A i, j \in 1..Len(YearMap) : YearMap[i].year = YearMap[j].year => i = j
        /\ \A i \in 1..Len(YearMap) :
               LET y == YearMap[i].year
                   months == YearMap[i].months
               IN  /\ \E k \in 1..Len(points) : YearKey(k) = y
                   /\ \A m \in 1..12 :
                          IF \E k \in 1..Len(points) : YearKey(k) = y /\ MonthKey(k) = m
                          THEN \E e \in 1..Len(months) :
                                   /\ months[e] = [month |-> R(m), count |-> CountOf(y, m, Len(points))]
                                   /\ \A f \in 1..Len(months) : months[f].month = R(m) => f = e
                          ELSE \A e \in 1..Len(months) : months[e].month # R(m)
        /\ (/\ Len(points) = 2
            /\ points[1].time = DateKey(2024, 1, 15) /\ points[1].count = 5
            /\ points[2].time = DateKey(2024, 1, 20) /\ points[2].count = 5) =>
               YearMap = <<[year |-> <<"2", "0", "2", "4">>,
                            months |-> <<[month |-> R(1), count |-> 10]>>]>>

\* the documented pair of points, followed by a point of another month, regrouped
C15_Witness ==
    /\ Regrouped
    /\ Len(points) = 3
    /\ points[1].time = DateKey(2024, 1, 15) /\ points[1].count = 5
    /\ points[2].time = DateKey(2024, 1, 20) /\ points[2].count = 5
    /\ points[3].time = DateKey(2024, 2, 10)
    /\ Len(YearMap) = 1
    /\ Len(YearMap[1].months) = 2
    /\ YearMap[1].months[1].count = 10

----------------------------------------------------------------------------
(* The totals of yearOverYear *)

\* every key is eight digits and its month is one of the twelve
WellFormed(pts) ==
    \A k \in 1..Len(pts) :
        /\ Len(pts[k].time) = 8
        /\ \A c \in 1..8 : IsDigit(pts[k].time[c])
        /\ 10 * DigitValue(pts[k].time[5]) + DigitValue(pts[k].time[6]) \in 1..12

RECURSIVE SumOfCounts(_)
SumOfCounts(entries) ==
    IF entries = <<>> THEN 0
    ELSE entries[Len(entries)].count + SumOfCounts(SubSeq(entries, 1, Len(entries) - 1))

RECURSIVE SumOfYears(_)
SumOfYears(map) ==
    IF map = <<>> THEN 0
    ELSE SumOfCounts(map[Len(map)].months) + SumOfYears(SubSeq(map, 1, Len(map) - 1))

\* C30: for points with well-formed YYYYMMDD keys the map has at most one
\* entry per month within each year, a year key exactly for the years that
\* occur in the input, and entry counts that add up to the sum of the input
\* counts; the call leaves the count of every input point as it was
C30_TotalsKept ==
    /\ [](Regrouped /\ WellFormed(points) =>
              /\ \A i \in 1..Len(YearMap) :
                     \A e, f \in 1..Len(YearMap[i].months) :
                         YearMap[i].months[e].month = YearMap[i].months[f].month => e = f
              /\ {YearMap[i].year : i \in 1..Len(YearMap)}
                     = {YearKey(k) : k \in 1..Len(points)}
              /\ \A i, j \in 1..Len(YearMap) : YearMap[i].year = YearMap[j].year => i = j
              /\ SumOfYears(YearMap) = SumOfCounts(points))
    /\ [][(pc = "yearOverYear" /\ pc' = "done" /\ WellFormed(points)) =>
              /\ Len(points') = Len(points)
              /\ \A k \in 1..Len(points) : points'[k].count = points[k].count]_vars

\* two points of January 2024 and one of December 2023, regrouped: two years,
\* one entry each, the counts added up to 11 and the points as they were
C30_Witness ==
    /\ Regrouped
    /\ WellFormed(points)
    /\ Len(points) = 3
    /\ points[1] = [time |-> DateKey(2024, 1, 15), count |-> 5, label |-> <<>>]
    /\ points[2] = [time |-> DateKey(2023, 12, 31), count |-> 1, label |-> <<>>]
    /\ points[3] = [time |-> DateKey(2024, 1, 20), count |-> 5, label |-> <<>>]
    /\ Len(YearMap) = 2
    /\ YearMap[1].months = <<[month |-> R(1), count |-> 10]>>
    /\ YearMap[2].months = <<[month |-> R(12), count |-> 1]>>
    /\ SumOfYears(YearMap) = 11

----------------------------------------------------------------------------
(* Properties of canonicalParamsJSON and generateStudyId *)

\* canonicalParamsJSON and generateStudyId have returned
Identified == pc = "generateManifest" /\ IsDefined(canonical) /\ IsDefined(studyId)

\* the two characters are one letter in either case, or the same character
SameLetter(c1, c2) == c1 = c2 \/ {c1, c2} = {"a", "A"}

\* str is blank outside its positions lo..hi
BlankOutside(str, lo, hi) ==
    \A k \in 1..Len(str) : (k < lo \/ k > hi) => str[k] = " "

\* the two names differ only in letter case and in surrounding blanks
SameDrugName(x, y) ==
    \E i \in 1..(Len(x) + 1), i2 \in 1..(Len(y) + 1) :
        \E j \in (i - 1)..Len(x), j2 \in (i2 - 1)..Len(y) :
            /\ BlankOutside(x, i, j)
            /\ BlankOutside(y, i2, j2)
            /\ j - i = j2 - i2
            /\ \A k \in 0..(j - i) : SameLetter(x[i + k], y[i2 + k])

\* the input gives the canonical string and the Study ID of the calls made
SameIdentity(p, cmp) ==
    /\ canonicalParamsJSON(p, cmp) = canonical[1]
    /\ generateStudyId(p, cmp) = studyId[1]

NotEnabled(cmp) == cmp = Undefined \/ ~ cmp[1].enabled

\* C16: an input that differs from the one of the calls only in apiKey, only
\* in the letter case or surrounding whitespace of the drug name, only in
\* serious being false or absent, or only in the drug of a comparison that is
\* not enabled, has the same canonical string and the same Study ID
C16_IdentityOfNormalisedParams ==
    Identified =>
        LET p == params[1] IN
        /\ \A key \in ApiKeys : SameIdentity([p EXCEPT !.apiKey = key], comparison)
        /\ \A name \in DrugNames :
               SameDrugName(name, p.drug) => SameIdentity([p EXCEPT !.drug = name], comparison)
        /\ p.serious \in {Undefined, Some(FALSE)} =>
               \A flag \in {Undefined, Some(FALSE)} :
                   SameIdentity([p EXCEPT !.serious = flag], comparison)
        /\ (IsDefined(comparison) /\ ~ comparison[1].enabled) =>
               \A name \in ComparatorNames \cup DrugNames :
                   SameIdentity(p, Some([comparison[1] EXCEPT !.drug = name]))

\* a padded lower-case name with a key, serious absent and a comparison that
\* is not enabled: the canonical string holds the trimmed upper-case name,
\* serious false and a null comparator, and no key
C16_Witness ==
    /\ Identified
    /\ params[1].drug = <<" ", "a">>
    /\ params[1].apiKey = Some("key-1")
    /\ params[1].serious = Undefined
    /\ params[1].dedupMode = "raw"
    /\ comparison = Some([enabled |-> FALSE, drug |-> <<"a">>])
    /\ canonical[1] = "{\"charMode\":\"suspect\",\"comparator\":null,\"dateFrom\":\"20200101\",\"dateTo\":\"20231231\",\"dedupMode\":\"raw\",\"drug\":\"A\",\"serious\":false}"
    /\ studyId[1].studyId.prefix = "FS-"

----------------------------------------------------------------------------
(* Tables with an empty cell *)

\* C28: for a table with c = 0 computeDisproportionality returns isSignal
\* false and isStrongSignal false however large a is, and for a table with
\* any of a, b, c, d equal to 0 it returns isStrongSignal false
C28_DegenerateNeverFinding ==
    Scored =>
        /\ table.c = 0 => (~ score[1].isSignal /\ ~ score[1].isStrongSignal)
        /\ AnyCellZero(table) => ~ score[1].isStrongSignal

\* nine hundred reports of the pair and none of the reaction elsewhere: the
\* count and the chi-squared statistic pass the Evans tests, the ratio is 0
\* and the score is no finding
C28_Witness ==
    /\ Scored
    /\ table = LoneTable
    /\ score[1].table.a >= 3
    /\ BRGeInt(score[1].prrChi2, 4)
    /\ REq(score[1].prr, R(0))
    /\ ~ score[1].isSignal
    /\ ~ score[1].isStrongSignal

----------------------------------------------------------------------------
(* The parameters a manifest records against its Study ID *)

Recorded == pc = "done" /\ IsDefined(manifest) /\ IsDefined(canonical)

\* the manifest generateManifest gives for the parameters and the comparison,
\* the rest of the input being that of the call made
ManifestOf(p, cmp) ==
    generateManifest([params |-> p, comparison |-> cmp, signals |-> scores,
                      totalReports |-> 5000, fdrEnabled |-> FALSE,
                      endpointBase |-> Undefined], manifest[1].generatedAt)

\* the query parameters a manifest records, the comparator apart
QueryOf(m) ==
    [drug |-> m.drug, dateRange |-> m.dateRange, seriousOnly |-> m.seriousOnly,
     dedupMode |-> m.dedupMode, charMode |-> m.charMode]

SameCanonical(p, cmp) == canonicalParamsJSON(p, cmp) = canonical[1]

EnabledWithEmptyDrug(cmp) == IsDefined(cmp) /\ cmp[1].enabled /\ cmp[1].drug = <<>>

\* C25: whenever another input produces the canonical parameter string of
\* the call made, its manifest records the same drug, comparatorDrug,
\* dateRange, seriousOnly, dedupMode and charMode
C25_SameStringSameRecord ==
    Recorded =>
        \A p \in ParamSets, cmp \in Comparisons :
            SameCanonical(p, cmp) =>
                /\ QueryOf(ManifestOf(p, cmp)) = QueryOf(manifest[1])
                /\ ManifestOf(p, cmp).comparatorDrug = manifest[1].comparatorDrug

\* what the code does give: with the canonical string the manifests share
\* the Study ID, the hash and every recorded parameter but the comparator,
\* and the comparator too unless one comparison alone is enabled with the
\* empty string for drug
C25_SameStringSameRecordButEmptyComparator ==
    Recorded =>
        \A p \in ParamSets, cmp \in Comparisons :
            SameCanonical(p, cmp) =>
                /\ QueryOf(ManifestOf(p, cmp)) = QueryOf(manifest[1])
                /\ ManifestOf(p, cmp).studyId = manifest[1].studyId
                /\ ManifestOf(p, cmp).fullHash = manifest[1].fullHash
                /\ (EnabledWithEmptyDrug(cmp) <=> EnabledWithEmptyDrug(comparison))
                       => ManifestOf(p, cmp).comparatorDrug = manifest[1].comparatorDrug

\* a comparison enabled with a blank for drug: the manifest records the empty
\* name, and the comparison enabled with the empty string has the same
\* canonical string and records no comparator
C25_Witness ==
    /\ Recorded
    /\ comparison = Some([enabled |-> TRUE, drug |-> <<" ">>])
    /\ manifest[1].comparatorDrug = Some("")
    /\ SameCanonical(params[1], Some([enabled |-> TRUE, drug |-> <<>>]))
    /\ ManifestOf(params[1], Some([enabled |-> TRUE, drug |-> <<>>])).comparatorDrug = Undefined

----------------------------------------------------------------------------
(* The step-up formula of applyBenjaminiHochberg *)

Corrected == pc = "done" /\ Len(scores) > 0

RawP(i) == scores[i].prrPValue

Below(v) == Cardinality({k \in 1..Len(scores) : RLt(RawP(k), v)})

NotAbove(v) == Cardinality({k \in 1..Len(scores) : RLe(RawP(k), v)})

\* the ranks score i can have in an ascending order of the raw p-values
RanksOf(i) == (Below(RawP(i)) + 1)..NotAbove(RawP(i))

\* p_j: the raw p-value at rank j of any ascending order
PAtRank(j) == RawP(CHOOSE i \in 1..Len(scores) : j \in RanksOf(i))

\* min over the ranks j in r..m of p_j * m / j
RECURSIVE MinFromRank(_)
MinFromRank(r) ==
    LET m == Len(scores)
        term == RDiv(RMul(PAtRank(r), R(m)), R(r))
    IN  IF r = m THEN term ELSE RMin(term, MinFromRank(r + 1))

\* C17: in a corrected batch of m scores, the fdrPValue of the score at rank r
\* of an ascending order of the raw p-values is min(1, min over j >= r of
\* p_j * m / j); with tied p-values this holds for each rank the score can take
C17_StepUpFormula ==
    Corrected =>
        \A i \in 1..Len(scores) : \A r \in RanksOf(i) :
            /\ IsDefined(corrected[i].fdrPValue)
            /\ REq(Fdr(corrected[i]), RMin(R(1), MinFromRank(r)))

\* a corrected batch of the largest size with a tie, in which the minimum of
\* some score is reached at a later rank than its own
C17_Witness ==
    /\ Corrected
    /\ Len(scores) = MaxBatch
    /\ \E i \in 1..Len(scores) : Cardinality(RanksOf(i)) > 1
    /\ \E i \in 1..Len(scores) : \E r \in RanksOf(i) :
           /\ RLt(MinFromRank(r), RDiv(RMul(RawP(i), R(Len(scores))), R(r)))
           /\ REq(Fdr(corrected[i]), MinFromRank(r))
           /\ RLt(Fdr(corrected[i]), R(1))

----------------------------------------------------------------------------
(* The total of the table in computeChi2 and computeIC *)

CellSum(t) == t.a + t.b + t.c + t.d

\* (ad - bc)^2 * n / ((a+b)(c+d)(a+c)(b+d)) for a total n, as a pair of big
\* integers; 0 if the denominator is 0
Chi2OfTotal(t, n) ==
    LET denom == BMul(BMul(BNat(t.a + t.b), BNat(t.c + t.d)),
                      BMul(BNat(t.a + t.c), BNat(t.b + t.d)))
        diff == BNat(Abs(t.a * t.d - t.b * t.c))
    IN  IF denom = <<>> THEN BRFrac(0, 1)
        ELSE BR(BMul(BNat(n), BMul(diff, diff)), denom)

BRSame(x, y) == x.neg = y.neg /\ BCmp(BMul(x.n, y.d), BMul(y.n, x.d)) = 0

\* log2(a / expected) with expected = (a+b)(a+c)/n for a total n > 0; 0 if a,
\* a+b or a+c is 0
ICOfTotal(t, n) ==
    IF t.a = 0 \/ t.a + t.b = 0 \/ t.a + t.c = 0 THEN R(0)
    ELSE MathLog2(Rat(t.a * n, (t.a + t.b) * (t.a + t.c)))

\* C18 as stated: the chi-squared and the IC of a score are those of the
\* formulas taken with the n field of its table
C18_ResultFollowsSuppliedN ==
    Scored =>
        /\ BRSame(Sc.prrChi2, Chi2OfTotal(table, table.n))
        /\ REq(Sc.ic, ICOfTotal(table, table.n))

\* C18 as amended: the chi-squared and the IC of a score are those of the
\* formulas taken with a + b + c + d, and computeChi2 and computeIC give the
\* same result whatever total the table is supplied with
C18_ResultIgnoresSuppliedN ==
    Scored =>
        /\ BRSame(Sc.prrChi2, Chi2OfTotal(table, CellSum(table)))
        /\ REq(Sc.ic, ICOfTotal(table, CellSum(table)))
        /\ \A n \in {0, CellSum(table), table.n, table.n + 1} :
               /\ computeChi2([table EXCEPT !.n = n]) = Sc.prrChi2
               /\ computeIC([table EXCEPT !.n = n]) = Sc.ic

\* the documented cells supplied with a total that is not their sum: the
\* score has the chi-squared and the IC of the sum, not of the supplied total
C18_Witness ==
    /\ Scored
    /\ table.a = 150 /\ table.b = 4850 /\ table.c = 3000 /\ table.d = 992000
    /\ table.n # CellSum(table)
    /\ BRSame(Sc.prrChi2, Chi2OfTotal(table, CellSum(table)))
    /\ ~ BRSame(Sc.prrChi2, Chi2OfTotal(table, table.n))
    /\ ~ REq(Sc.ic, ICOfTotal(table, table.n))

----------------------------------------------------------------------------
(* The lifecycle of fdrPValue in a session *)

FdrOf(batch) == [i \in 1..Len(batch) |-> batch[i].fdrPValue]

\* the fdrPValue of the scores both batches hold
SameFdr(batch1, batch2) ==
    \A i \in 1..Len(batch1) : i <= Len(batch2) => batch1[i].fdrPValue = batch2[i].fdrPValue

\* C19: a score computeDisproportionality returned, and the batch of such
\* scores the caller holds, never has fdrPValue; every score of the result
\* of applyBenjaminiHochberg has it; and the only step that gives a score an
\* fdrPValue or changes one is the call of applyBenjaminiHochberg, which
\* gives one to every score of a non-empty batch
C19_FdrLifecycle ==
    /\ [](IsDefined(score) => score[1].fdrPValue = Undefined)
    /\ [](\A i \in 1..Len(scores) : scores[i].fdrPValue = Undefined)
    /\ [](\A i \in 1..Len(corrected) : IsDefined(corrected[i].fdrPValue))
    /\ [][pc # "applyBenjaminiHochberg" =>
             /\ corrected' = corrected
             /\ SameFdr(scores, scores')
             /\ (IsDefined(score') => score'[1].fdrPValue = Undefined)]_vars
    /\ [][pc = "applyBenjaminiHochberg" =>
             /\ Len(corrected') = Len(scores)
             /\ \A i \in 1..Len(scores) : IsDefined(corrected'[i].fdrPValue)]_vars

\* a session over a full batch, corrected and recorded in a manifest: the
\* scores assembled have no fdrPValue and the corrected ones all have one
C19_Witness ==
    /\ pc = "done"
    /\ IsDefined(manifest)
    /\ manifest[1].fdrEnabled
    /\ manifest[1].reactionsAnalyzed = MaxBatch
    /\ Len(scores) = MaxBatch
    /\ \A i \in 1..Len(scores) : scores[i].fdrPValue = Undefined
    /\ \A i \in 1..Len(corrected) : IsDefined(corrected[i].fdrPValue)
    /\ \E i \in 1..Len(corrected) : RLt(Fdr(corrected[i]), R(1))

----------------------------------------------------------------------------
(* The frame of detectSpikes *)

\* C21: the call of detectSpikes leaves the caller's sequence and its points
\* as they were, and returns a sequence of the same length whose point i has
\* the time, the count and the label of the input point i
C21_FrameOfDetectSpikes ==
    [][(pc = "detectSpikes" /\ pc' = "done") =>
          /\ points' = points
          /\ Len(annotated'[1]) = Len(points)
          /\ \A k \in 1..Len(points) :
                 /\ annotated'[1][k].time = points[k].time
                 /\ annotated'[1][k].count = points[k].count
                 /\ annotated'[1][k].label = points[k].label
                 /\ DOMAIN points'[k] = {"time", "count", "label"}]_vars

\* an annotated series with a spike: the input points still have their three
\* fields only, and the output points follow them in order
C21_Witness ==
    /\ Spiked
    /\ Len(points) = LongFlatLen
    /\ Len(Ann) = LongFlatLen
    /\ \E k \in 1..Len(Ann) : Ann[k].isSpike
    /\ \A k \in 1..Len(points) :
           /\ DOMAIN points[k] = {"time", "count", "label"}
           /\ Ann[k].time = points[k].time
    /\ points[1].time # points[2].time

----------------------------------------------------------------------------
(* The scan of detectChangepoints *)

Scanning == pc = "detectChangepoints.loop" /\ IsDefined(scan)

Sc1 == scan[1]

\* the statement-by-statement run returns what the function returns
ScanAgrees == Detected => Found = detectChangepoints(data, threshold)


\* a finite number in units of 1/10000
Units(x) == ToUnits(x)

\* the accumulators after the update at index i, in units: the deviation of
\* data[i] from the mean less or plus half the standard deviation is added,
\* and the sums are cut at 0
UpAt(i) ==
    IntMax(0, Units(Sc1.sPos) + (data[i + 1] * Scale - Units(Sc1.mean)) - Units(Sc1.std) \div 2)

DownAt(i) ==
    IntMin(0, Units(Sc1.sNeg) + (data[i + 1] * Scale - Units(Sc1.mean)) + Units(Sc1.std) \div 2)

\* sPos > h or sNeg < -h after the update at index i; a comparison with NaN is false
ReportedAt(i) ==
    Sc1.h.d # 0 /\ (UpAt(i) > Units(Sc1.h) \/ DownAt(i) < - Units(Sc1.h))

\* C22: on a series of at least 10 points the scan starts at index 1 and
\* index 0 is never reported; mean is the mean of the series, std its
\* population standard deviation and h the supplied threshold or 4 * std; the
\* pass at index i adds data[i] - mean - std/2 to sPos and data[i] - mean +
\* std/2 to sNeg, cut at 0, reports i exactly when then sPos > h or
\* sNeg < -h, and on a report leaves both accumulators at 0 for the next index
C22_ScanRule ==
    /\ [](Scanning =>
             /\ Len(data) >= 10
             /\ Sc1.i >= 1
             /\ \A k \in 1..Len(Sc1.changepoints) : Sc1.changepoints[k] >= 1
             /\ REq(Sc1.mean, MeanOf(data))
             /\ IsRootOf(Sc1.std, IF REq(PopVariance(data), R(0)) THEN 0 ELSE 1, PopVariance(data))
             /\ IF IsDefined(threshold) THEN Sc1.h = threshold[1]
                ELSE Units(Sc1.h) = 4 * Units(Sc1.std))
    /\ [](Detected => \A k \in 1..Len(Found) : Found[k] >= 1)
    /\ [][(Scanning /\ IsDefined(scan') /\ scan' # scan) =>
             LET i == Sc1.i
                 next == scan'[1]
             IN  /\ next.i = i + 1
                 /\ next.mean = Sc1.mean /\ next.std = Sc1.std /\ next.h = Sc1.h
                 /\ IF ReportedAt(i)
                    THEN /\ next.changepoints = Append(Sc1.changepoints, i)
                         /\ next.sPos = R(0)
                         /\ next.sNeg = R(0)
                    ELSE /\ next.changepoints = Sc1.changepoints
                         /\ Units(next.sPos) = UpAt(i)
                         /\ Units(next.sNeg) = DownAt(i)]_vars

\* the scan of the documented step after its second report: index 18 has
\* just been reported and both accumulators are back at 0
C22_Witness ==
    /\ Scanning
    /\ data = DocStep
    /\ threshold = Undefined
    /\ Sc1.i = 19
    /\ Sc1.changepoints = <<9, 18>>
    /\ Sc1.sPos = R(0)
    /\ Sc1.sNeg = R(0)

\* the threshold is a number that is not negative, or absent
ThresholdNotNegative == threshold = Undefined \/ (threshold[1].d # 0 /\ threshold[1].n >= 0)

StrictlyIncreasingWithin(list, lo, hi) ==
    /\ \A k \in 1..Len(list) : lo <= list[k] /\ list[k] <= hi
    /\ \A k \in 1..(Len(list) - 1) : list[k] < list[k + 1]

\* C29: with a threshold h >= 0 (or the default one), after every pass of
\* the scan 0 <= sPos <= h and -h <= sNeg <= 0, and the list of indices,
\* while it is built and when it is returned, is strictly increasing with
\* every index in 1..len-1
C29_AccumulatorsBounded ==
    /\ [](Scanning /\ ThresholdNotNegative =>
             /\ 0 <= Units(Sc1.sPos) /\ Units(Sc1.sPos) <= Units(Sc1.h)
             /\ - Units(Sc1.h) <= Units(Sc1.sNeg) /\ Units(Sc1.sNeg) <= 0
             /\ StrictlyIncreasingWithin(Sc1.changepoints, 1, Sc1.i - 1))
    /\ [](Detected /\ ThresholdNotNegative =>
             StrictlyIncreasingWithin(Found, 1, Len(data) - 1))

\* a scan with the threshold 100 that has reported an index and gathers
\* evidence again: sPos is above 0 and below h
C29_Witness ==
    /\ Scanning
    /\ threshold = Some(R(HighLevel))
    /\ Len(Sc1.changepoints) >= 1
    /\ Units(Sc1.sPos) > 0
    /\ Units(Sc1.sPos) < Units(Sc1.h)

----------------------------------------------------------------------------
(* Invocations interleaved *)

\* what the function of a job returns when it runs alone
Alone(fn, arg) ==
    IF fn = "applyBenjaminiHochberg" THEN applyBenjaminiHochberg(arg).output
    ELSE IF fn = "detectChangepoints" THEN detectChangepoints(arg.data, arg.threshold)
    ELSE computeDisproportionality("NAUSEA", arg.a, arg)

Returned(c) == calls[c].at = "returned"

\* C23: however the passes of several invocations interleave, each
\* invocation returns what its function returns run alone on the same
\* input, and two invocations on the same input return the same result
C23_InterleavedAsAlone ==
    pc = "workers" =>
        /\ \A c \in 1..ConcurrentCalls :
               Returned(c) => calls[c].result = Some(Alone(calls[c].fn, calls[c].arg))
        /\ \A c1, c2 \in 1..ConcurrentCalls :
               (/\ Returned(c1) /\ Returned(c2)
                /\ calls[c1].fn = calls[c2].fn
                /\ calls[c1].arg = calls[c2].arg) =>
                   calls[c1].result = calls[c2].result

\* two corrections of different batches whose walks ran interleaved, both
\* returned with the results of the runs alone
C23_Witness ==
    /\ pc = "workers"
    /\ calls[1].fn = "applyBenjaminiHochberg"
    /\ calls[2].fn = "applyBenjaminiHochberg"
    /\ calls[1].arg # calls[2].arg
    /\ Returned(1) /\ Returned(2)
    /\ calls[1].overlapped /\ calls[2].overlapped
    /\ calls[1].result = Some(applyBenjaminiHochberg(calls[1].arg).output)
    /\ calls[1].result # calls[2].result

----------------------------------------------------------------------------
(* The correction as an operation on the whole batch *)

\* the fdrPValue values one pass over the batch gives, in input order
WholeFdr(batch) == FdrOf(applyBenjaminiHochberg(batch).output)

\* those of the batch cut after its first k scores, each piece corrected on
\* its own and the results concatenated
SplitFdr(batch, k) ==
    FdrOf(applyBenjaminiHochberg(SubSeq(batch, 1, k)).output
              \o applyBenjaminiHochberg(SubSeq(batch, k + 1, Len(batch))).output)

\* C24: there are batches and cuts for which correcting the two pieces
\* separately gives some score an fdrPValue other than the one a pass over
\* the whole batch gives it
C24_SplitDiffersFromWhole ==
    (pc = "applyBenjaminiHochberg" \/ pc = "done") =>
        \E batch \in Batches : \E k \in 1..(Len(batch) - 1) :
            \E i \in 1..Len(batch) : ~ REq(SplitFdr(batch, k)[i][1], WholeFdr(batch)[i][1])

\* a corrected batch of two scores with distinct p-values below 1/2: the
\* pass over the whole gave the smaller one twice its raw value, which is
\* what it keeps when it is corrected alone
C24_Witness ==
    /\ pc = "done"
    /\ Len(scores) = 2
    /\ RLt(R(0), scores[1].prrPValue)
    /\ RLt(scores[1].prrPValue, scores[2].prrPValue)
    /\ FdrOf(corrected) = WholeFdr(scores)
    /\ REq(Fdr(corrected[1]), RMul(R(2), scores[1].prrPValue))
    /\ REq(SplitFdr(scores, 1)[1][1], scores[1].prrPValue)
    /\ ~ REq(SplitFdr(scores, 1)[1][1], Fdr(corrected[1]))

InUnitInterval(x) == RLe(R(0), x) /\ RLe(x, R(1))

\* C26: in a corrected batch whose raw p-values lie in [0, 1], every fdrPValue
\* lies in [0, 1] and is not smaller than the raw p-value of its score, and a
\* score with the largest raw p-value has its raw p-value for fdrPValue
C26_FdrRange ==
    (Corrected /\ \A i \in 1..Len(scores) : InUnitInterval(RawP(i))) =>
        \A i \in 1..Len(corrected) :
            /\ IsDefined(corrected[i].fdrPValue)
            /\ InUnitInterval(Fdr(corrected[i]))
            /\ RLe(RawP(i), Fdr(corrected[i]))
            /\ (\A j \in 1..Len(scores) : RLe(RawP(j), RawP(i))) =>
                   REq(Fdr(corrected[i]), RawP(i))

\* a corrected batch of the largest size in which a score was raised above
\* its raw p-value and the largest raw p-value, below 1, was kept
C26_Witness ==
    /\ Corrected
    /\ Len(corrected) = MaxBatch
    /\ \E i \in 1..Len(corrected) :
           RLt(R(0), RawP(i)) /\ RLt(RawP(i), Fdr(corrected[i])) /\ RLt(Fdr(corrected[i]), R(1))
    /\ \E i \in 1..Len(corrected) :
           /\ \A j \in 1..Len(scores) : RLe(RawP(j), RawP(i))
           /\ RLt(RawP(i), R(1))
           /\ REq(Fdr(corrected[i]), RawP(i))

\* the orders of the positions 1..m
OrdersOf(m) == {f \in [1..m -> 1..m] : \A i, j \in 1..m : f[i] = f[j] => i = j}

\* C27: the scores of the batch handed over in any other order get the same
\* fdrPValue each, and two scores of the batch with the same raw p-value get
\* the same fdrPValue
C27_OrderIndependent ==
    Corrected =>
        /\ \A f \in OrdersOf(Len(scores)) :
               LET shuffled == [k \in 1..Len(scores) |-> scores[f[k]]]
                   out == applyBenjaminiHochberg(shuffled).output
               IN  \A k \in 1..Len(scores) :
                       /\ out[k].reaction = scores[f[k]].reaction
                       /\ REq(Fdr(out[k]), Fdr(corrected[f[k]]))
        /\ \A i, j \in 1..Len(scores) :
               REq(RawP(i), RawP(j)) => REq(Fdr(corrected[i]), Fdr(corrected[j]))

\* a corrected batch of the largest size, not in ascending order, with two
\* scores of the same raw p-value and a third of another fdrPValue
C27_Witness ==
    /\ Corrected
    /\ Len(scores) = MaxBatch
    /\ RLt(RawP(2), RawP(1))
    /\ \E i, j \in 1..Len(scores) :
           i # j /\ REq(RawP(i), RawP(j)) /\ RLt(R(0), RawP(i))
               /\ REq(Fdr(corrected[i]), Fdr(corrected[j]))
    /\ \E i, j \in 1..Len(scores) : ~ REq(Fdr(corrected[i]), Fdr(corrected[j]))

====
